---- MODULE Spec2Model ----
(***************************************************************************)
(* Service supervision core of OpenList-Desktop:                           *)
(*   AlistService  (src/app/services/alist_service.py)                      *)
(*   RcloneManager (src/app/services/rclone_manager.py)                     *)
(* Each controller method is a pure operator from the controller's state   *)
(* record to a result [s |-> new state, out |-> emitted signals/requests,  *)
(* ok |-> the model had a free process slot].  Actions apply one method    *)
(* (or one event-loop callback) and publish what it emitted in `out`.      *)
(* The two controllers are separate singletons that share no state, so a   *)
(* run exercises one of them; the one call from the listing service's side *)
(* into the mount daemon's (HomeInterface.on_alist_state_changed) is an    *)
(* action of the mount daemon's runs.                                      *)
(***************************************************************************)
EXTENDS Integers, Sequences, FiniteSets, TLC

VARIABLES
    alist,      \* AlistService fields and the QProcess objects it created
    rclone,     \* RcloneManager fields, its QProcess objects, timers, worker tasks
    cfg,        \* the configuration store (work directories, startup parameters,
                \* the platform the program runs on, the MountConfig list)
    page,       \* MountInterface: its cards, each [config, is_mounted]
    out,        \* signals emitted and requests issued by the last step, in order
    last,       \* the last step taken: [op, c, p]
    run,        \* the controller this run exercises; the other stays as constructed
    hist        \* what an observer of the run's controller remembers:
                \*   lastState : the last state event it emitted ("none" at first)
                \*   restartAt : -1, or the number of process objects that existed
                \*               when a restart was requested while Running and
                \*               no Stopped event has been emitted since
                \*   again     : the last step delivered to the page the same live
                \*               mount list as the step before it

vars == <<alist, rclone, cfg, page, out, last, run, hist>>

\* ---------------------------------------------------------------- bounds
MaxProcs == 2       \* QProcess objects a controller creates in one run
MaxTimers == 1      \* pending one-shot timers of one kind
MaxTasks == 1       \* worker-pool tasks in flight
MaxMountLaunches == 1   \* daemon processes started in a run of the mount page

\* ---------------------------------------------------------------- constants
StatusPollMs == 5000
KillDelayMs == 3000
RestartDelayMs == 1000
InitialSyncDelayMs == 500

None == <<>>
Procs == 1..MaxProcs

\* ---------------------------------------------------------------- events
Remove(seq, i) == SubSeq(seq, 1, i - 1) \o SubSeq(seq, i + 1, Len(seq))
\* One record shape for everything a step makes observable:
\*   k : kind, c : controller ("alist"/"rclone"), p : process id (0 = none),
\*   v : payload (a tuple of strings).
Ev(k, c, p, v) == [k |-> k, c |-> c, p |-> p, v |-> v]
Log(c, tag) == Ev("log", c, 0, <<tag>>)
R(s, o) == [s |-> s, out |-> o, ok |-> TRUE]
Blocked(s) == [s |-> s, out |-> <<>>, ok |-> FALSE]
Elems(seq) == {seq[i] : i \in 1..Len(seq)}
RECURSIVE Flatten(_)
Flatten(seqs) == IF seqs = <<>> THEN <<>> ELSE Head(seqs) \o Flatten(Tail(seqs))

\* a fresh QProcess object
NewProc == [st |-> "alive", restarting |-> FALSE]
NoProc == [st |-> "unborn", restarting |-> FALSE]
FreeSlots(s) == {p \in Procs : s.procs[p].st = "unborn"}
NextSlot(s) == CHOOSE p \in FreeSlots(s) : \A q \in FreeSlots(s) : p <= q
\* QProcess.state() != QProcess.ProcessState.NotRunning
\* (a process killed from outside, st = "killed", stays so for its QProcess
\* until its finished signal has been handled)
IsLive(s, p) == p # 0 /\ s.procs[p].st \in {"alive", "killed"}

\* ---------------------------------------------------------------- output lines
\* A line of process output is a tuple of words.
AlistReadyLine(port) == <<"start", "HTTP", "server", "@", "0.0.0.0", ":", port>>
AlistLines ==
    {AlistReadyLine("5244"), AlistReadyLine("5245"), <<"reading", "config">>, <<>>}
AlistIsReady(line) ==
    \E i \in 1..Len(line) - 3 :
        /\ line[i] = "start" /\ line[i + 1] = "HTTP"
        /\ line[i + 2] = "server" /\ line[i + 3] = "@"
\* int(line.split("@")[1].split(":")[1])
AlistPort(line) ==
    LET at == CHOOSE i \in 1..Len(line) : line[i] = "@"
        colon == CHOOSE i \in (at + 1)..Len(line) :
                    line[i] = ":" /\ \A j \in (at + 1)..(i - 1) : line[j] # ":"
    IN line[colon + 1]

\* ---------------------------------------------------------------- text
\* A text is a tuple of one-character strings.
Lowers ==
    <<"a", "b", "c", "d", "e", "f", "g", "h", "i", "j", "k", "l", "m",
      "n", "o", "p", "q", "r", "s", "t", "u", "v", "w", "x", "y", "z">>
Uppers ==
    <<"A", "B", "C", "D", "E", "F", "G", "H", "I", "J", "K", "L", "M",
      "N", "O", "P", "Q", "R", "S", "T", "U", "V", "W", "X", "Y", "Z">>
PosIn(seq, x) ==
    IF \E i \in 1..Len(seq) : seq[i] = x
    THEN CHOOSE i \in 1..Len(seq) : seq[i] = x
    ELSE 0
\* str.isalpha() of one character
IsAlpha(ch) == PosIn(Lowers, ch) # 0 \/ PosIn(Uppers, ch) # 0
\* str.upper()
UpperCh(ch) == IF PosIn(Lowers, ch) # 0 THEN Uppers[PosIn(Lowers, ch)] ELSE ch
StrUpper(s) == [i \in 1..Len(s) |-> UpperCh(s[i])]
IsSpace(ch) == ch = " "
\* str.strip()
Strip(s) ==
    LET keep == {i \in 1..Len(s) : ~IsSpace(s[i])}
    IN IF keep = {} THEN <<>>
       ELSE SubSeq(s, CHOOSE i \in keep : \A j \in keep : i <= j,
                      CHOOSE i \in keep : \A j \in keep : j <= i)
\* str.split(): the maximal runs of non-blank characters
RECURSIVE SplitWs(_)
SplitWs(s) ==
    IF s = <<>> THEN <<>>
    ELSE IF IsSpace(s[1]) THEN SplitWs(Tail(s))
    ELSE LET stops == {i \in 1..Len(s) : IsSpace(s[i])}
             n == IF stops = {} THEN Len(s) + 1
                  ELSE CHOOSE i \in stops : \A j \in stops : i <= j
         IN <<SubSeq(s, 1, n - 1)>> \o SplitWs(SubSeq(s, n, Len(s)))
\* the text with its backslashes kept
BackslashToSlash_kept(s) == s

\* str.replace("\\", "/")
BackslashToSlash(s) == [i \in 1..Len(s) |-> IF s[i] = "\\" THEN "/" ELSE s[i]]
Webdav == <<"w", "e", "b", "d", "a", "v", ":">>

\* ---------------------------------------------------------------- mount dialog
\* AddMountDialog.get_mount_config: the form's fields to a MountConfig; the
\* cache mode is the checked radio button's id
ModeOff == <<"o", "f", "f">>
ModeMinimal == <<"m", "i", "n", "i", "m", "a", "l">>
ModeWrites == <<"w", "r", "i", "t", "e", "s">>
ModeFull == <<"f", "u", "l", "l">>
CacheModeName(id) ==
    CASE id = 0 -> ModeOff [] id = 1 -> ModeMinimal [] id = 2 -> ModeWrites
      [] id = 3 -> ModeFull [] OTHER -> ModeOff
get_mount_config(form, platform) ==
    LET typed == Strip(form.remote_path)
        rp0 == IF platform = "Windows" THEN BackslashToSlash(typed) ELSE typed
        rooted == rp0 # <<>> /\ rp0 # <<"/">>
        rp == IF rooted /\ rp0[1] # "/" THEN <<"/">> \o rp0 ELSE rp0
    IN [name |-> Strip(form.name),
        remote_path |-> rp,
        mount_point |-> Strip(form.mount_point),
        auto_mount |-> form.auto_mount,
        network_mode |-> form.network_mode,
        vfs_cache_mode |-> CacheModeName(form.cache_id),
        extra_args |-> Strip(form.extra_args),
        fs |-> IF rooted THEN Webdav \o rp ELSE Webdav \o <<"/">>]

\* the radio button populate_form checks for a stored cache mode
CacheModeId(mode) ==
    CASE mode = ModeOff -> 0 [] mode = ModeMinimal -> 1 [] mode = ModeWrites -> 2
      [] mode = ModeFull -> 3 [] OTHER -> 0
\* AddMountDialog.populate_form: the form an edit dialog opens with
populate_form(mc) ==
    [name |-> mc.name, remote_path |-> mc.remote_path, mount_point |-> mc.mount_point,
     auto_mount |-> mc.auto_mount, network_mode |-> mc.network_mode,
     cache_id |-> CacheModeId(mc.vfs_cache_mode), extra_args |-> mc.extra_args]

\* ---------------------------------------------------------------- mount list file
\* MountListSerializer: the mount list as JSON text and back.  json.dumps
\* writes a list of objects, each key and each text in double quotes with
\* '"' and '\' escaped by a backslash, the booleans as true and false, the
\* items separated by ", " and key from value by ": ".
KeyName == <<"n", "a", "m", "e">>
KeyRemotePath == <<"r", "e", "m", "o", "t", "e", "_", "p", "a", "t", "h">>
KeyMountPoint == <<"m", "o", "u", "n", "t", "_", "p", "o", "i", "n", "t">>
KeyAutoMount == <<"a", "u", "t", "o", "_", "m", "o", "u", "n", "t">>
KeyNetworkMode == <<"n", "e", "t", "w", "o", "r", "k", "_", "m", "o", "d", "e">>
KeyCacheMode ==
    <<"v", "f", "s", "_", "c", "a", "c", "h", "e", "_", "m", "o", "d", "e">>
KeyExtraArgs == <<"e", "x", "t", "r", "a", "_", "a", "r", "g", "s">>
KeyFs == <<"f", "s">>

\* the dict as its items [k, t, v], in insertion order; t is the value's type
Item(k, t, v) == [k |-> k, t |-> t, v |-> v]
Items(mc) ==
    <<Item(KeyName, "str", mc.name), Item(KeyRemotePath, "str", mc.remote_path),
      Item(KeyMountPoint, "str", mc.mount_point),
      Item(KeyAutoMount, "bool", mc.auto_mount),
      Item(KeyNetworkMode, "bool", mc.network_mode),
      Item(KeyCacheMode, "str", mc.vfs_cache_mode),
      Item(KeyExtraArgs, "str", mc.extra_args), Item(KeyFs, "str", mc.fs)>>
\* dict[key]
ItemOf(items, key) == items[CHOOSE i \in 1..Len(items) : items[i].k = key].v
FromItems(items) ==
    [name |-> ItemOf(items, KeyName), remote_path |-> ItemOf(items, KeyRemotePath),
     mount_point |-> ItemOf(items, KeyMountPoint),
     auto_mount |-> ItemOf(items, KeyAutoMount),
     network_mode |-> ItemOf(items, KeyNetworkMode),
     vfs_cache_mode |-> ItemOf(items, KeyCacheMode),
     extra_args |-> ItemOf(items, KeyExtraArgs), fs |-> ItemOf(items, KeyFs)]

\* a text written with nothing escaped
JsonEscape_raw(s) == s

\* a text with '"' and '\' escaped
RECURSIVE JsonEscape(_)
JsonEscape(s) ==
    IF s = <<>> THEN <<>>
    ELSE (IF s[1] \in {"\"", "\\"} THEN <<"\\", s[1]>> ELSE <<s[1]>>)
         \o JsonEscape(Tail(s))
JsonString(s) == <<"\"">> \o JsonEscape(s) \o <<"\"">>
JsonValue(item) ==
    IF item.t = "bool"
    THEN IF item.v THEN <<"t", "r", "u", "e">> ELSE <<"f", "a", "l", "s", "e">>
    ELSE JsonString(item.v)
RECURSIVE JsonJoin(_)
JsonJoin(parts) ==
    IF parts = <<>> THEN <<>>
    ELSE IF Len(parts) = 1 THEN parts[1]
    ELSE parts[1] \o <<",", " ">> \o JsonJoin(Tail(parts))
JsonObject(items) ==
    <<"{">> \o JsonJoin([i \in 1..Len(items) |->
                            JsonString(items[i].k) \o <<":", " ">>
                            \o JsonValue(items[i])])
    \o <<"}">>
\* MountListSerializer.serialize
serialize(value) ==
    <<"[">> \o JsonJoin([i \in 1..Len(value) |-> JsonObject(Items(value[i]))])
    \o <<"]">>

\* json.loads: the text from the opening quote at i - 1 up to the closing one
RECURSIVE ScanString(_, _, _)
ScanString(t, i, acc) ==
    IF i > Len(t) THEN [ok |-> FALSE, t |-> "str", val |-> acc, next |-> i]
    ELSE IF t[i] = "\"" THEN [ok |-> TRUE, t |-> "str", val |-> acc, next |-> i + 1]
    ELSE IF t[i] = "\\"
    THEN IF i + 1 > Len(t) \/ t[i + 1] \notin {"\"", "\\"}
         THEN [ok |-> FALSE, t |-> "str", val |-> acc, next |-> i]
         ELSE ScanString(t, i + 2, Append(acc, t[i + 1]))
    ELSE ScanString(t, i + 1, Append(acc, t[i]))
StartsAt(t, i, word) ==
    i + Len(word) - 1 <= Len(t) /\ SubSeq(t, i, i + Len(word) - 1) = word
ScanValue(t, i) ==
    IF StartsAt(t, i, <<"\"">>) THEN ScanString(t, i + 1, <<>>)
    ELSE IF StartsAt(t, i, <<"t", "r", "u", "e">>)
    THEN [ok |-> TRUE, t |-> "bool", val |-> TRUE, next |-> i + 4]
    ELSE IF StartsAt(t, i, <<"f", "a", "l", "s", "e">>)
    THEN [ok |-> TRUE, t |-> "bool", val |-> FALSE, next |-> i + 5]
    ELSE [ok |-> FALSE, t |-> "bool", val |-> FALSE, next |-> i]
\* the items of an object from just after "{" or after an item
RECURSIVE ScanItems(_, _, _)
ScanItems(t, i, acc) ==
    IF i > Len(t) THEN [ok |-> FALSE, val |-> acc, next |-> i]
    ELSE IF t[i] = "}" THEN [ok |-> TRUE, val |-> acc, next |-> i + 1]
    ELSE IF t[i] \in {",", " "} THEN ScanItems(t, i + 1, acc)
    ELSE IF t[i] # "\"" THEN [ok |-> FALSE, val |-> acc, next |-> i]
    ELSE LET k == ScanString(t, i + 1, <<>>) IN
         IF ~k.ok \/ ~StartsAt(t, k.next, <<":", " ">>)
         THEN [ok |-> FALSE, val |-> acc, next |-> i]
         ELSE LET v == ScanValue(t, k.next + 2) IN
              IF ~v.ok THEN [ok |-> FALSE, val |-> acc, next |-> i]
              ELSE ScanItems(t, v.next, Append(acc, Item(k.val, v.t, v.val)))
\* the objects of a list from just after "[" or after an object
RECURSIVE ScanObjects(_, _, _)
ScanObjects(t, i, acc) ==
    IF i > Len(t) THEN [ok |-> FALSE, val |-> acc]
    ELSE IF t[i] = "]" THEN [ok |-> i = Len(t), val |-> acc]
    ELSE IF t[i] \in {",", " "} THEN ScanObjects(t, i + 1, acc)
    ELSE IF t[i] # "{" THEN [ok |-> FALSE, val |-> acc]
    ELSE LET o == ScanItems(t, i + 1, <<>>) IN
         IF ~o.ok THEN [ok |-> FALSE, val |-> acc]
         ELSE ScanObjects(t, o.next, Append(acc, FromItems(o.val)))
\* MountListSerializer.deserialize: [] for a text that is not a JSON list
deserialize(t) ==
    IF ~StartsAt(t, 1, <<"[">>) THEN <<>>
    ELSE LET r == ScanObjects(t, 2, <<>>) IN IF r.ok THEN r.val ELSE <<>>

\* ================================================================ AlistService
AlistInit ==
    [is_running |-> FALSE, port |-> None, url |-> None, pid |-> 0,
     main_process |-> 0, procs |-> [p \in Procs |-> NoProc]]

\* AlistService._run_command: None (0) when the work directory holds no executable
a_run_command(s, c) ==
    IF ~c.alistWorkDirOk
    THEN [h |-> 0, s |-> s, out |-> <<Ev("configurationRequired", "alist", 0, <<>>)>>, ok |-> TRUE]
    ELSE IF FreeSlots(s) = {}
    THEN [h |-> 0, s |-> s, out |-> <<>>, ok |-> FALSE]
    ELSE LET p == NextSlot(s) IN
         [h |-> p, s |-> [s EXCEPT !.procs[p] = NewProc],
          out |-> <<Log("alist", "exec"), Ev("launch", "alist", p, <<"server">>)>>,
          ok |-> TRUE]

\* AlistService.start
a_start(s, c) ==
    IF s.is_running /\ s.main_process # 0
    THEN R(s, <<Log("alist", "already-running")>>)
    ELSE LET r == a_run_command(s, c) IN
         [s |-> [r.s EXCEPT !.main_process = r.h], out |-> r.out, ok |-> r.ok]

\* AlistService._on_main_process_finished(process)
a_on_main_process_finished(s, c, p) ==
    LET s1 == [s EXCEPT !.is_running = FALSE, !.port = None, !.url = None, !.pid = 0]
        o1 == <<Ev("state", "alist", 0, <<"Stopped">>), Log("alist", "stopped")>>
    IN IF s.procs[p].restarting
       THEN LET r == a_start(s1, c) IN [s |-> r.s, out |-> o1 \o r.out, ok |-> r.ok]
       ELSE R(s1, o1)

\* the first test of AlistService.stop: not self.is_running or not self._main_process
a_StopRejected(s) == ~s.is_running \/ s.main_process = 0

\* AlistService.stop; `quick`: the process exits within waitForFinished(3000),
\* in which case its finished signal is handled inside the wait.
a_stop(s, c, quick) ==
    IF a_StopRejected(s)
    THEN R(s, <<Log("alist", "not-running")>>)
    ELSE LET p == s.main_process
             t == <<Ev("terminate", "alist", p, <<>>)>>
         IN IF IsLive(s, p) /\ quick
            THEN LET r == a_on_main_process_finished(
                              [s EXCEPT !.procs[p].st = "dead"], c, p)
                 IN [s |-> r.s, out |-> t \o r.out, ok |-> r.ok]
            ELSE R(s, t \o <<Ev("kill", "alist", p, <<>>)>>)

\* AlistService.restart
a_restart(s, c, quick) ==
    IF s.is_running /\ s.main_process # 0
    THEN a_stop([s EXCEPT !.procs[s.main_process].restarting = TRUE], c, quick)
    ELSE a_start(s, c)

\* AlistService.cleanup
a_cleanup(s, c, quick) ==
    IF IsLive(s, s.main_process)
    THEN a_stop([s EXCEPT !.procs[s.main_process].restarting = FALSE], c, quick)
    ELSE R(s, <<>>)

\* AlistService._handle_main_output for one line read from `p`
a_handle_main_output(s, p, line) ==
    IF line = <<>> THEN R(s, <<>>)
    ELSE IF AlistIsReady(line)
    THEN LET port == AlistPort(line)
             url == <<"http://localhost:", port>>
         IN R([s EXCEPT !.is_running = TRUE, !.port = port, !.url = url, !.pid = p],
              <<Log("alist", "line"), Ev("state", "alist", p, <<"Running">> \o url)>>)
    ELSE R(s, <<Log("alist", "line")>>)


\* ================================================================ RcloneManager
\* startup parameter lists the configuration store may hold
FullParams == <<"rcd", "--rc-user", "admin", "--rc-pass", "secret">>
NoRcdParams == <<"--rc-user", "admin", "--rc-pass", "secret">>
ParamChoices == {FullParams, NoRcdParams}

RcloneReadyLine(url) == <<"NOTICE:", "Serving", "remote", "control", "on", url>>
RcloneLines ==
    {RcloneReadyLine("http://127.0.0.1:5572/"),
     <<"Serving", "remote", "control", "on", "http://[::]:5572/">>,
     <<"Failed", "to", "start", "remote", "control">>,
     <<>>}

\* "Serving remote control on" in line
HasServingPhrase(line) ==
    \E i \in 1..Len(line) - 3 :
        /\ line[i] = "Serving" /\ line[i + 1] = "remote"
        /\ line[i + 2] = "control" /\ line[i + 3] = "on"

\* a word ending in "on" that is followed by a blank
EndsInOn(w) == w \in {"on"}
\* the URL taken to be the whole line
UrlOf_wholeLine(line) == line

\* line.split("on ")[-1].strip(): the words after the last "on " (the whole
\* line when there is none)
UrlOf(line) ==
    LET cuts == {i \in 1..Len(line) - 1 : EndsInOn(line[i])}
    IN IF cuts = {} THEN line
       ELSE LET i == CHOOSE c \in cuts : \A d \in cuts : d <= c
            IN SubSeq(line, i + 1, Len(line))

IndexOf(seq, x) ==
    IF \E i \in 1..Len(seq) : seq[i] = x
    THEN CHOOSE i \in 1..Len(seq) : seq[i] = x /\ \A j \in 1..(i - 1) : seq[j] # x
    ELSE 0

RcloneInit ==
    [is_core_running |-> FALSE, rc_url |-> None, rc_user |-> None, rc_pass |-> None,
     is_stopping |-> FALSE, core_process |-> 0,
     procs |-> [p \in Procs |-> NoProc],
     status_timer |-> [active |-> FALSE, interval |-> StatusPollMs],
     kill_timers |-> <<>>,      \* pending check_termination timers; each remembers
                                \* (for inspection only) the process it was armed for
     start_timers |-> 0,        \* pending QTimer.singleShot(1000, start_core_service)
     sync_timers |-> 0,         \* pending QTimer.singleShot(500, _initial_sync)
     automount_timers |-> 0,    \* pending QTimer.singleShot(2000, start_auto_mounts)
     refresh_timers |-> 0,      \* pending QTimer.singleShot(1000, refresh_mounts_info)
     core |-> <<>>,             \* calls the running core-thread handler has still to make
     auto_queue |-> <<>>,       \* start_auto_mounts: the configs its loop has still to visit
     auto_cur |-> <<>>,         \* start_auto_mounts: the config its loop is mounting
     tasks |-> <<>>]            \* worker-pool tasks:
                                \*   kind   : what was queued
                                \*   todo   : the calls the task has still to make
                                \*   pc     : "queued", "posting" (between the precondition
                                \*            of _send_rc_command and its request), "done"
                                \*   resp   : what the last _send_rc_command returned
                                \*   result : "success"/"failure" (the returned dict),
                                \*            "exception" (the task raised), "" (neither)
                                \*   exc    : the exception's type
                                \*   arg    : <<the MountConfig>> the task was given
                                \*   target : (for inspection only) the process that
                                \*            was the handle when the task was queued
                                \*   ensured: (for inspection only) the task has seen
                                \*            "webdav" in a listing or created it

\* a task handed to TaskExecutor.runTask
NewTask(kind, todo, arg, target) ==
    [kind |-> kind, todo |-> todo, pc |-> "queued", resp |-> "none",
     result |-> "", exc |-> "", arg |-> arg, target |-> target, ensured |-> FALSE]

\* _get_rc_auth_from_config keeping the credentials it had, without a warning
r_get_rc_auth_from_config_silent(s, c) == R(s, <<>>)

\* RcloneManager._get_rc_auth_from_config
r_get_rc_auth_from_config(s, c) ==
    LET args == c.rcloneStartupParams
        ui == IndexOf(args, "--rc-user")
        pi == IndexOf(args, "--rc-pass")
    IN IF ui # 0 /\ ui < Len(args) /\ pi # 0 /\ pi < Len(args)
       THEN R([s EXCEPT !.rc_user = <<args[ui + 1]>>, !.rc_pass = <<args[pi + 1]>>], <<>>)
       ELSE R([s EXCEPT !.rc_user = None, !.rc_pass = None], <<Log("rclone", "no-rc-auth")>>)

\* _get_rclone_path without the test of the work directory
r_get_rclone_path_unchecked(c) == [path |-> TRUE, out |-> <<>>]

\* RcloneManager._get_rclone_path: the path is None iff the result emits
\* configurationRequired
r_get_rclone_path(c) ==
    IF ~c.rcloneWorkDirOk
    THEN [path |-> FALSE, out |-> <<Ev("configurationRequired", "rclone", 0, <<>>)>>]
    ELSE [path |-> TRUE, out |-> <<>>]

\* RcloneManager.start_core_service
start_core_service(s, c) ==
    IF s.is_core_running /\ IsLive(s, s.core_process)
    THEN R(s, <<Log("rclone", "already-running")>>)
    ELSE LET pth == r_get_rclone_path(c) IN
         IF ~pth.path THEN R(s, pth.out)
         ELSE IF IndexOf(c.rcloneStartupParams, "rcd") = 0
         THEN R(s, <<Ev("error", "rclone", 0, <<"no-rcd">>)>>)
         ELSE IF FreeSlots(s) = {} THEN Blocked(s)
         ELSE LET a == r_get_rc_auth_from_config(s, c)
                  p == NextSlot(s)
              IN R([a.s EXCEPT !.core_process = p, !.procs[p] = NewProc],
                   a.out \o <<Log("rclone", "starting"),
                              Ev("launch", "rclone", p, c.rcloneStartupParams)>>)

\* StopRejected without the test of is_core_running
StopRejected_stoppingOnly(s) == s.is_stopping

\* the first test of stop_core_service: not self.is_core_running or self._is_stopping
StopRejected(s) == ~s.is_core_running \/ s.is_stopping

\* RcloneManager.stop_core_service: queues the unmount-all task on the worker pool
stop_core_service(s, c) ==
    IF StopRejected(s) THEN R(s, <<>>)
    ELSE LET pth == r_get_rclone_path(c) IN
         IF ~pth.path THEN R(s, pth.out)
         ELSE IF ~IsLive(s, s.core_process) THEN R(s, <<>>)
         ELSE IF Len(s.tasks) >= MaxTasks THEN Blocked(s)
         ELSE R([s EXCEPT !.is_stopping = TRUE,
                          !.tasks = Append(@, NewTask("stop_unmount", <<"unmountall">>,
                                                      <<>>, s.core_process))],
                <<Log("rclone", "stopping")>>)

\* RcloneManager.restart_core_service
restart_core_service(s, c) ==
    IF ~s.is_core_running THEN start_core_service(s, c)
    ELSE IF s.core_process # 0
    THEN stop_core_service([s EXCEPT !.procs[s.core_process].restarting = TRUE], c)
    ELSE R(s, <<>>)

\* RcloneManager._terminate_core_process
r_terminate_core_process(s) ==
    IF IsLive(s, s.core_process)
    THEN IF Len(s.kill_timers) >= MaxTimers THEN Blocked(s)
         ELSE R([s EXCEPT !.kill_timers = Append(@, s.core_process)],
                <<Ev("terminate", "rclone", s.core_process, <<>>)>>)
    ELSE R(s, <<>>)

\* check_termination, the closure _terminate_core_process arms for 3000 ms;
\* `armedFor` is the process that received the terminate request
check_termination(s, armedFor) ==
    IF IsLive(s, s.core_process)
    THEN R(s, <<Log("rclone", "force-kill"),
                Ev("kill", "rclone", s.core_process, <<"armedFor", ToString(armedFor)>>)>>)
    ELSE R(s, <<>>)

\* RcloneManager._handle_core_output for one line; the slot reads from
\* self._core_process whichever process signalled readyRead
r_handle_core_output(s, sender, line) ==
    IF sender # s.core_process \/ line = <<>> THEN R(s, <<>>)
    ELSE IF HasServingPhrase(line) /\ ~s.is_core_running
    THEN IF s.sync_timers >= MaxTimers THEN Blocked(s)
         ELSE LET url == UrlOf(line) IN
              R([s EXCEPT !.is_core_running = TRUE, !.rc_url = url,
                          !.status_timer.active = TRUE,
                          !.sync_timers = @ + 1],
                <<Ev("log", "rclone", 0, <<"[Core]">> \o line),
                  Ev("state", "rclone", s.core_process, <<"Running">> \o url),
                  Log("rclone", "online")>>)
    ELSE R(s, <<Ev("log", "rclone", 0, <<"[Core]">> \o line)>>)

\* RcloneManager._on_core_process_finished: the slot reads and clears the
\* "restarting" property of self._core_process
r_on_core_process_finished(s) ==
    LET h == s.core_process
        restarting == h # 0 /\ s.procs[h].restarting
        s1 == IF h # 0 THEN [s EXCEPT !.procs[h].restarting = FALSE] ELSE s
        s2 == [s1 EXCEPT !.is_core_running = FALSE, !.rc_url = None,
                         !.is_stopping = FALSE, !.status_timer.active = FALSE]
        o == <<Ev("state", "rclone", 0, <<"Stopped">>),
               Ev("mountsInfo", "rclone", 0, <<>>), Log("rclone", "stopped")>>
    IN IF restarting
       THEN IF s.start_timers >= MaxTimers THEN Blocked(s)
            ELSE R([s2 EXCEPT !.start_timers = @ + 1], o \o <<Log("rclone", "restarting")>>)
       ELSE R(s2, o)


\* ---------------------------------------------------------------- control API
\* what an HTTP POST to the daemon can end in: a 2xx JSON body, an
\* HTTPStatusError, a RequestError, or any other exception (e.g. a body that
\* is not JSON), which _send_rc_command does not catch
Outcomes == {"ok", "err_http", "err_req", "raised"}
\* the Fs values /mount/listmounts may report: nothing, or "webdav:docs"
MountLists == {<<>>, <<Webdav \o <<"d", "o", "c", "s">>>>}

\* the precondition of _send_rc_command never failing
RcNotReady_never(s) == FALSE

\* the precondition of _send_rc_command: not self.is_core_running or not self.rc_url
RcNotReady(s) == ~s.is_core_running \/ s.rc_url = None

\* the try block of _send_rc_command: the request and what it returns
rc_post(ep, outcome) ==
    LET req == Ev("http", "rclone", 0, <<ep>>) IN
    CASE outcome = "ok" -> [resp |-> "ok", out |-> <<req>>]
      [] outcome = "err_http" ->
            [resp |-> "err", out |-> <<req, Ev("error", "rclone", 0, <<"ApiError", ep>>)>>]
      [] outcome = "err_req" ->
            [resp |-> "err", out |-> <<req, Ev("error", "rclone", 0, <<"RequestError", ep>>)>>]
      [] OTHER -> [resp |-> "raised", out |-> <<req>>]

\* RcloneManager._send_rc_command called on the core thread; resp is "none"
\* (None), "ok" (JSON), "err" (error envelope) or "raised"
r_send_rc_command(s, ep, outcome) ==
    LET r == IF RcNotReady(s)
             THEN [resp |-> "none",
                   out |-> <<Ev("error", "rclone", 0, <<"ServiceNotRunning", ep>>)>>]
             ELSE rc_post(ep, outcome)
    IN [resp |-> r.resp, out |-> r.out \o <<Ev("rc_return", "rclone", 0, <<ep, r.resp>>)>>]

\* an exception leaving a core-thread handler: the rest of the handler is skipped
Unwind(s, o) == R([s EXCEPT !.core = <<>>], o \o <<Ev("exception", "rclone", 0, <<>>)>>)

\* RcloneManager.list_remotes
r_list_remotes(s, outcome, hasWebdav) ==
    LET r == r_send_rc_command(s, "/config/listremotes", outcome) IN
    IF r.resp = "raised" THEN Unwind(s, r.out)
    ELSE IF r.resp = "ok"
    THEN R(s, r.out \o <<Ev("remotes", "rclone", 0,
                              IF hasWebdav THEN <<"webdav">> ELSE <<>>)>>)
    ELSE R(s, r.out)

\* RcloneManager._ensure_webdav_remote up to the call of create_webdav_remote
r_ensure_webdav_remote(s, outcome, hasWebdav) ==
    LET r == r_send_rc_command(s, "/config/listremotes", outcome) IN
    IF r.resp = "raised" THEN Unwind(s, r.out)
    ELSE IF r.resp = "ok"
    THEN IF ~hasWebdav
         THEN R([s EXCEPT !.core = <<"create_webdav_remote">> \o @],
                r.out \o <<Log("rclone", "webdav-missing")>>)
         ELSE R(s, r.out \o <<Log("rclone", "webdav-present")>>)
    ELSE IF r.resp = "err" THEN R(s, r.out \o <<Log("rclone", "webdav-check-failed")>>)
    ELSE R(s, r.out)

\* RcloneManager.create_webdav_remote and create_remote up to the call of
\* list_remotes
r_create_webdav_remote(s, c, outcome) ==
    LET pth == r_get_rclone_path(c) IN
    IF ~pth.path THEN R(s, pth.out)
    ELSE IF ~c.webdavAccountOk
    THEN R(s, <<Ev("error", "rclone", 0, <<"webdav-incomplete">>)>>)
    ELSE LET r == r_send_rc_command(s, "/config/create", outcome)
             \* _obscure_password runs `rclone obscure` with subprocess.run
             o == <<Ev("subprocess", "rclone", 0, <<"obscure">>)>> \o r.out
         IN IF r.resp = "raised" THEN Unwind(s, o)
            ELSE IF r.resp # "none"
            THEN R([s EXCEPT !.core = <<"list_remotes">> \o @],
                   o \o <<Log("rclone", "remote-created")>>)
            ELSE R(s, o)

\* refresh_mounts_info delivering the list whatever _send_rc_command returned
r_refresh_mounts_info_unguarded(s, outcome, mounts) ==
    LET r == r_send_rc_command(s, "/mount/listmounts", outcome) IN
    IF r.resp = "raised" THEN Unwind(s, r.out)
    ELSE R(s, r.out \o <<Ev("mountsInfo", "rclone", 0, mounts)>>)

\* RcloneManager.refresh_mounts_info
r_refresh_mounts_info(s, outcome, mounts) ==
    LET r == r_send_rc_command(s, "/mount/listmounts", outcome) IN
    IF r.resp = "raised" THEN Unwind(s, r.out)
    ELSE R(s, r.out \o <<Ev("mountsInfo", "rclone", 0,
                             IF r.resp = "ok" THEN mounts ELSE <<>>)>>)

\* RcloneManager._auto_mount_on_startup
r_auto_mount_on_startup(s, c) ==
    IF \A i \in 1..Len(c.mountConfigs) : ~c.mountConfigs[i].auto_mount THEN R(s, <<>>)
    ELSE IF s.automount_timers >= MaxTimers THEN Blocked(s)
    ELSE R([s EXCEPT !.automount_timers = @ + 1], <<Log("rclone", "auto-mount")>>)

\* ---------------------------------------------------------------- mounts
\* the drive mount point of mount() and unmount() with no colon appended
MountPointOs_asTyped(mount_point, platform) == mount_point

\* mount() and unmount(): a mount point that is one letter gets a ":" on Windows
MountPointOs(mount_point, platform) ==
    IF platform = "Windows" /\ Len(mount_point) = 1 /\ IsAlpha(mount_point[1])
    THEN mount_point \o <<":">>
    ELSE mount_point

\* the CacheMode table of mount(); -1 stands for None (a name not in the table)
CacheModeCode(mode) ==
    CASE mode = ModeOff -> 0 [] mode = ModeMinimal -> 1 [] mode = ModeWrites -> 2
      [] mode = ModeFull -> 3 [] OTHER -> -1

\* the payload mount() posts to /mount/mount
MountPayload(mc, platform) ==
    [fs |-> mc.fs,
     mountPoint |-> MountPointOs(mc.mount_point, platform),
     AllowOther |-> mc.network_mode,
     AllowNonEmpty |-> TRUE,
     VolumeName |-> StrUpper(mc.name),
     ExtraFlags |-> SplitWs(mc.extra_args),
     CacheMode |-> CacheModeCode(mc.vfs_cache_mode)]

\* the payload unmount() posts to /mount/unmount
UnmountPayload(mount_point, platform) ==
    [mountPoint |-> MountPointOs(mount_point, platform)]

\* the request body a step hands to _send_rc_command
Payload(ep, body) == Ev("payload", "rclone", 0, [ep |-> ep, body |-> body])

\* an exception of type `tag` leaving a core-thread handler
UnwindWith(s, o, tag) ==
    R([s EXCEPT !.core = <<>>], o \o <<Ev("exception", "rclone", 0, <<tag>>)>>)

\* QTimer.singleShot(1000, self.refresh_mounts_info)
ArmRefresh(s) == [s EXCEPT !.refresh_timers = @ + 1]

\* RcloneManager.mount from its payload on, called on the core thread by
\* start_auto_mounts for the config in auto_cur
r_mount_send(s, c, outcome) ==
    LET mc == s.auto_cur[1]
        body == Payload("/mount/mount", MountPayload(mc, c.platform))
        r == r_send_rc_command(s, "/mount/mount", outcome)
        o == <<body, Log("rclone", "mounting")>> \o r.out
    IN IF r.resp = "raised" THEN Unwind(s, o)
       ELSE IF r.resp = "none"
       THEN \* "error" not in None raises TypeError
            UnwindWith(s, o, "TypeError")
       ELSE IF r.resp = "ok"
       THEN IF s.refresh_timers >= MaxTimers THEN Blocked(s)
            ELSE R(ArmRefresh(s), o \o <<Log("rclone", "mounted")>>)
       ELSE R(s, o)

\* RcloneManager.unmount_all
r_unmount_all(s, outcome) ==
    LET r == r_send_rc_command(s, "/mount/unmountall", outcome)
        o == <<Log("rclone", "unmounting-all")>> \o r.out
    IN IF r.resp = "raised" THEN Unwind(s, o)
       ELSE IF r.resp = "none"
       THEN \* "error" not in None raises TypeError
            UnwindWith(s, o, "TypeError")
       ELSE IF r.resp = "ok"
       THEN IF s.refresh_timers >= MaxTimers THEN Blocked(s)
            ELSE R(ArmRefresh(s), o \o <<Log("rclone", "all-unmounted")>>)
       ELSE R(s, o \o <<Ev("error", "rclone", 0, <<"unmountall-failed">>)>>)

\* RcloneManager.delete_remote up to the call of list_remotes; `result` is
\* the "success" of the dict it returns
r_delete_remote(s, outcome) ==
    IF RcNotReady(s)
    THEN [s |-> s, ok |-> TRUE, result |-> "failure",
          out |-> <<Ev("error", "rclone", 0, <<"delete-not-running">>)>>]
    ELSE LET r == r_send_rc_command(s, "/config/delete", outcome) IN
         IF r.resp = "raised"
         THEN [s |-> [s EXCEPT !.core = <<>>], ok |-> TRUE, result |-> "exception",
               out |-> r.out \o <<Ev("exception", "rclone", 0, <<>>)>>]
         ELSE IF r.resp = "none"
         THEN [s |-> [s EXCEPT !.core = <<>>], ok |-> TRUE, result |-> "exception",
               out |-> r.out \o <<Ev("exception", "rclone", 0, <<"TypeError">>)>>]
         ELSE IF r.resp = "ok"
         THEN [s |-> [s EXCEPT !.core = <<"list_remotes">> \o @], ok |-> TRUE,
               result |-> "success", out |-> r.out \o <<Log("rclone", "remote-deleted")>>]
         ELSE [s |-> s, ok |-> TRUE, result |-> "failure",
               out |-> r.out \o <<Ev("error", "rclone", 0, <<"delete-failed">>)>>]

\* start_auto_mounts, the closure _auto_mount_on_startup arms for 2000 ms: its
\* loop over the configs that have auto_mount set
start_auto_mounts(s, c) ==
    R([s EXCEPT !.auto_queue = SelectSeq(c.mountConfigs, LAMBDA mc : mc.auto_mount),
                !.core = <<"auto_next">>], <<>>)

\* one round of the loop: a config without a mount point is skipped, the
\* others are handed to mount(); dirOk is false when the mount point does not
\* exist and os.makedirs raises
r_auto_next(s, dirOk) ==
    IF s.auto_queue = <<>> THEN R([s EXCEPT !.auto_cur = <<>>], <<>>)
    ELSE LET mc == Head(s.auto_queue) IN
         IF mc.mount_point = <<>>
         THEN R([s EXCEPT !.auto_queue = Tail(@), !.core = <<"auto_next">> \o @], <<>>)
         ELSE IF ~dirOk
         THEN UnwindWith([s EXCEPT !.auto_queue = Tail(@)], <<>>, "OSError")
         ELSE R([s EXCEPT !.auto_queue = Tail(@), !.auto_cur = <<mc>>,
                          !.core = <<"ensure_webdav_remote", "mount_send", "auto_next">>
                                   \o @],
                <<Log("rclone", "auto-mounting")>>)

\* one call of the running core-thread handler
r_core_call(s, c, call, outcome, flag, mounts) ==
    CASE call = "list_remotes" -> r_list_remotes(s, outcome, flag)
      [] call = "ensure_webdav_remote" -> r_ensure_webdav_remote(s, outcome, flag)
      [] call = "create_webdav_remote" -> r_create_webdav_remote(s, c, outcome)
      [] call = "refresh_mounts_info" -> r_refresh_mounts_info(s, outcome, mounts)
      [] call = "mount_send" -> r_mount_send(s, c, outcome)
      [] call = "auto_next" -> r_auto_next(s, flag)
      [] OTHER -> r_auto_mount_on_startup(s, c)

\* RcloneManager._initial_sync: the calls it makes, in order
InitialSyncCalls ==
    <<"list_remotes", "ensure_webdav_remote", "refresh_mounts_info", "auto_mount_on_startup">>

\* ---------------------------------------------------------------- worker pool
\* A task runs manager methods on a worker thread.  Each _send_rc_command it
\* makes takes two steps, so that the core thread can run between them: first
\* the precondition is read, then self.rc_url is read again to build the URL
\* and the request is made.
CallEp(call) ==
    CASE call = "unmountall" -> "/mount/unmountall"
      [] call = "ensure_webdav_remote" -> "/config/listremotes"
      [] call = "list_remotes" -> "/config/listremotes"
      [] call = "create_webdav_remote" -> "/config/create"
      [] call = "mount_send" -> "/mount/mount"
      [] call = "unmount_send" -> "/mount/unmount"
      [] OTHER -> "/config/update"

\* the task goes on to its next call, or returns
Proceed(task, todo) ==
    [task EXCEPT !.todo = todo, !.pc = IF todo = <<>> THEN "done" ELSE "queued"]
Returns(task, result) == [task EXCEPT !.todo = <<>>, !.pc = "done", !.result = result]
Raises(task, exc) ==
    [task EXCEPT !.todo = <<>>, !.pc = "done", !.result = "exception", !.exc = exc]

\* what the method that made the request does with the response: arm is the
\* number of refresh timers it arms
worker_return(task, resp, hasWebdav) ==
    LET call == Head(task.todo)
        rest == Tail(task.todo)
        t == [task EXCEPT !.resp = resp]
    IN CASE call = "unmountall" ->
                \* unmount_task returns the response itself
                [task |-> Proceed(t, rest), out |-> <<>>, arm |-> 0]
         [] call = "ensure_webdav_remote" ->
                IF resp = "ok" /\ ~hasWebdav
                THEN [task |-> Proceed(t, <<"create_webdav_remote">> \o rest),
                      out |-> <<Log("rclone", "webdav-missing")>>, arm |-> 0]
                ELSE [task |-> Proceed([t EXCEPT !.ensured = @ \/ resp = "ok"], rest),
                      arm |-> 0,
                      out |-> IF resp = "ok" THEN <<Log("rclone", "webdav-present")>>
                              ELSE IF resp = "err"
                              THEN <<Log("rclone", "webdav-check-failed")>>
                              ELSE <<>>]
         [] call = "create_webdav_remote" ->
                IF resp # "none"
                THEN [task |-> Proceed([t EXCEPT !.ensured = @ \/ resp = "ok"],
                                       <<"list_remotes">> \o rest),
                      out |-> <<Log("rclone", "remote-created")>>, arm |-> 0]
                ELSE [task |-> Proceed(t, rest), out |-> <<>>, arm |-> 0]
         [] call = "list_remotes" ->
                [task |-> Proceed(t, rest), arm |-> 0,
                 out |-> IF resp = "ok"
                         THEN <<Ev("remotes", "rclone", 0,
                                   IF hasWebdav THEN <<"webdav">> ELSE <<>>)>>
                         ELSE <<>>]
         [] call \in {"mount_send", "unmount_send"} ->
                IF resp = "none"
                THEN \* "error" not in None raises TypeError
                     [task |-> Raises(t, "TypeError"), out |-> <<>>, arm |-> 0]
                ELSE IF resp = "ok"
                THEN [task |-> Returns(t, "success"), arm |-> 1,
                      out |-> <<Log("rclone", IF call = "mount_send" THEN "mounted"
                                              ELSE "unmounted")>>]
                ELSE [task |-> Returns(t, "failure"), out |-> <<>>, arm |-> 0]
         [] OTHER ->
                \* update_remote
                IF resp = "none"
                THEN [task |-> Raises(t, "TypeError"), out |-> <<>>, arm |-> 0]
                ELSE IF resp = "ok"
                THEN [task |-> [Proceed(t, <<"list_remotes">>) EXCEPT !.result = "success"],
                      out |-> <<Log("rclone", "remote-updated")>>, arm |-> 0]
                ELSE [task |-> Returns(t, "failure"), arm |-> 0,
                      out |-> <<Ev("error", "rclone", 0, <<"update-failed">>)>>]

\* the task's next call up to the precondition of its _send_rc_command
worker_check(task, s, c) ==
    LET call == Head(task.todo)
        ep == CallEp(call)
        body == CASE call = "mount_send" ->
                        <<Payload(ep, MountPayload(task.arg[1], c.platform)),
                          Log("rclone", "mounting")>>
                  [] call = "unmount_send" ->
                        <<Payload(ep, UnmountPayload(task.arg[1].mount_point, c.platform)),
                          Log("rclone", "unmounting")>>
                  [] OTHER -> <<>>
        pth == r_get_rclone_path(c)
    IN IF call = "update_guard"
       THEN \* update_remote: its own test of the service, then _obscure_password
            IF RcNotReady(s)
            THEN [task |-> Returns(task, "failure"), arm |-> 0,
                  out |-> <<Ev("error", "rclone", 0, <<"update-not-running">>)>>]
            ELSE [task |-> Proceed(task, Tail(task.todo)), arm |-> 0,
                  out |-> pth.out \o (IF pth.path
                                      THEN <<Ev("subprocess", "rclone", 0, <<"obscure">>)>>
                                      ELSE <<>>)]
       ELSE IF call = "create_webdav_remote" /\ ~pth.path
       THEN [task |-> Proceed(task, Tail(task.todo)), out |-> pth.out, arm |-> 0]
       ELSE IF call = "create_webdav_remote" /\ ~c.webdavAccountOk
       THEN [task |-> Proceed(task, Tail(task.todo)), arm |-> 0,
             out |-> <<Ev("error", "rclone", 0, <<"webdav-incomplete">>)>>]
       ELSE LET pre == IF call = "create_webdav_remote"
                       THEN <<Ev("subprocess", "rclone", 0, <<"obscure">>)>>
                       ELSE body
            IN IF RcNotReady(s)
               THEN LET r == worker_return(task, "none", FALSE) IN
                    [task |-> r.task, arm |-> r.arm,
                     out |-> pre \o <<Ev("error", "rclone", 0, <<"ServiceNotRunning", ep>>)>>
                                 \o r.out]
               ELSE [task |-> [task EXCEPT !.pc = "posting"], out |-> pre, arm |-> 0]

\* ... then self.rc_url is read again to build the URL, and the request is
\* made: None.rstrip raises AttributeError, which _send_rc_command does not catch
worker_post(task, s, outcome, hasWebdav) ==
    IF s.rc_url = None
    THEN [task |-> Raises([task EXCEPT !.resp = "raised"], "AttributeError"),
          out |-> <<>>, arm |-> 0]
    ELSE LET p == rc_post(CallEp(Head(task.todo)), outcome) IN
         IF p.resp = "raised"
         THEN [task |-> Raises([task EXCEPT !.resp = "raised"], "Exception"),
               out |-> p.out, arm |-> 0]
         ELSE LET r == worker_return(task, p.resp, hasWebdav) IN
              [task |-> r.task, out |-> p.out \o r.out, arm |-> r.arm]

\* on_unmount_finished(response), the continuation of the unmount task
on_unmount_finished(s, resp) ==
    IF resp = "none"
    THEN \* "error" not in None raises TypeError before the terminate call
         R(s, <<Ev("exception", "rclone", 0, <<"TypeError">>)>>)
    ELSE LET o == IF resp = "ok" THEN <<Log("rclone", "unmount-sent")>>
                  ELSE <<Ev("error", "rclone", 0, <<"unmountall-failed">>)>>
             r == r_terminate_core_process(s)
         IN [s |-> r.s, out |-> o \o r.out, ok |-> r.ok]

\* on_completed / on_failed of the page's mount, unmount and update tasks
on_task_completed(s, task) ==
    IF task.result = "success"
    THEN R(s, IF task.kind = "update_remote"
              THEN <<Ev("ui", "page", 0, <<"success", task.kind>>)>> ELSE <<>>)
    ELSE R(s, <<Ev("ui", "page", 0, <<"warning", task.kind>>)>>)
on_task_failed(s, task) == R(s, <<Ev("ui", "page", 0, <<"error", task.kind, task.exc>>)>>)

\* TaskExecutor.runTask(task).then(onSuccess): the continuation is called with
\* the task's return value; a task that raised has no continuation here
task_then(s, task) ==
    LET done == <<Ev("task_done", "rclone", task.target, <<task.kind, task.resp>>)>>
        r == IF task.kind = "stop_unmount"
             THEN IF task.resp = "raised" THEN R(s, <<>>)
                  ELSE on_unmount_finished(s, task.resp)
             ELSE IF task.result = "exception" THEN on_task_failed(s, task)
             ELSE on_task_completed(s, task)
    IN [s |-> r.s, out |-> done \o r.out, ok |-> r.ok]

\* what the sweep finds at the mount points: nothing left, a residual mount,
\* or a residual mount that the forced unmount fails on
Sweeps == {"clear", "residual", "failed"}

\* the sweep's visit of one MountConfig
sweep_one(mc, platform, found) ==
    IF mc.mount_point = <<>> THEN <<>>
    ELSE IF platform = "Windows"
    THEN IF found # "clear" THEN <<Log("rclone", "residual-windows")>> ELSE <<>>
    ELSE IF platform = "Darwin"
    THEN <<Ev("subprocess", "rclone", 0, <<"mount">>)>>
         \o (IF found = "clear" THEN <<>>
             ELSE <<Log("rclone", "residual-macos"),
                    Ev("subprocess", "rclone", 0, <<"diskutil">>)>>
                  \o (IF found = "failed"
                      THEN <<Ev("error", "rclone", 0, <<"fallback-failed">>)>>
                      ELSE <<>>))
    ELSE <<>>

\* RcloneManager.unmount_all_fallback: the events of the sweep over the
\* configured mount points
unmount_all_fallback(c, found) ==
    IF Len(c.mountConfigs) = 0 THEN <<>>
    ELSE <<Log("rclone", "fallback-sweep")>>
         \o Flatten([i \in 1..Len(c.mountConfigs) |->
                        sweep_one(c.mountConfigs[i], c.platform, found)])

\* RcloneManager.cleanup: stop_core_service, then unmount_all_fallback
r_cleanup(s, c, found) ==
    LET r == stop_core_service(s, c) IN
    [s |-> r.s, ok |-> r.ok,
     out |-> <<Log("rclone", "cleanup")>> \o r.out
             \o unmount_all_fallback(c, found)
             \o <<Log("rclone", "cleanup-done")>>]

\* HomeInterface.on_alist_state_changed(is_running = True, ...), the slot
\* connected to the listing service's stateChanged: it starts the mount daemon
\* when rcloneStartAfterAlist is set and the daemon is not Running
on_alist_state_changed(s, c) ==
    IF c.rcloneStartAfterAlist
    THEN IF ~s.is_core_running
         THEN start_core_service(s, c)
         ELSE R(s, <<Log("home", "rclone-already-running")>>)
    ELSE R(s, <<>>)

\* ================================================================ MountInterface
\* The page keeps one card per MountConfig, in the order they were added.
NewCard(mc) == [config |-> mc, is_mounted |-> FALSE]
CardIndex(pg, name) ==
    IF \E i \in 1..Len(pg.cards) : pg.cards[i].config.name = name
    THEN CHOOSE i \in 1..Len(pg.cards) : pg.cards[i].config.name = name
    ELSE 0

\* MountInterface.add_mount_card
add_mount_card(pg, mc) ==
    IF mc.name = <<>> \/ CardIndex(pg, mc.name) # 0 THEN pg
    ELSE [pg EXCEPT !.cards = Append(@, NewCard(mc))]

\* MountInterface._load_mount_cards_from_config
RECURSIVE LoadCards(_, _)
LoadCards(pg, configs) ==
    IF configs = <<>> THEN pg
    ELSE LoadCards(add_mount_card(pg, Head(configs)), Tail(configs))

\* a card whose widgets were rebuilt for a new mounted state
Repainted(card) == Ev("card", "page", 0, <<"repainted">> \o card.config.name)

\* setMountedState that rebuilds the widgets on every call
setMountedState_always(card, mounted) ==
    [card |-> [card EXCEPT !.is_mounted = mounted], out |-> <<Repainted(card)>>]

\* MountCard.setMountedState: nothing happens when the state is the same
setMountedState(card, mounted) ==
    IF card.is_mounted = mounted THEN [card |-> card, out |-> <<>>]
    ELSE [card |-> [card EXCEPT !.is_mounted = mounted], out |-> <<Repainted(card)>>]

\* the card's fs as it is
DropRootSlash_none(fs) == fs

\* "protocol:/path" to "protocol:path": split(":/", 1) and rejoin with ":"
DropRootSlash(fs) ==
    LET hits == {i \in 1..(Len(fs) - 1) : fs[i] = ":" /\ fs[i + 1] = "/"}
    IN IF hits = {} THEN fs
       ELSE LET i == CHOOSE h \in hits : \A g \in hits : h <= g
            IN SubSeq(fs, 1, i) \o SubSeq(fs, i + 2, Len(fs))


\* MountInterface.on_mounts_info_updated; mounts is the list of live Fs values
on_mounts_info_updated(pg, mounts) ==
    LET mounted_fs_paths == Elems(mounts)
        set(card) ==
            setMountedState(card, \/ card.config.fs \in mounted_fs_paths
                                  \/ DropRootSlash(card.config.fs) \in mounted_fs_paths)
    IN [pg |-> [pg EXCEPT !.cards = [i \in 1..Len(pg.cards) |-> set(pg.cards[i]).card]],
        out |-> Flatten([i \in 1..Len(pg.cards) |-> set(pg.cards[i]).out])]

\* MountInterface.on_core_service_state_changed
on_core_service_state_changed(pg, is_running) ==
    IF is_running THEN [pg |-> pg, out |-> <<>>]
    ELSE [pg |-> [pg EXCEPT !.cards = [i \in 1..Len(pg.cards) |->
                                         setMountedState(pg.cards[i], FALSE).card]],
          out |-> Flatten([i \in 1..Len(pg.cards) |->
                              setMountedState(pg.cards[i], FALSE).out])]

\* the page's slots run for the signals a step emitted, in order
RECURSIVE Slots(_, _)
Slots(pg, o) ==
    IF o = <<>> THEN [pg |-> pg, out |-> <<>>]
    ELSE LET e == Head(o)
             r == CASE e.k = "mountsInfo" /\ e.c = "rclone" ->
                          on_mounts_info_updated(pg, e.v)
                    [] e.k = "state" /\ e.c = "rclone" ->
                          on_core_service_state_changed(pg, e.v[1] = "Running")
                    [] OTHER -> [pg |-> pg, out |-> <<>>]
             rest == Slots(r.pg, Tail(o))
         IN [pg |-> rest.pg, out |-> r.out \o rest.out]

\* MountInterface.on_start_clicked
on_start_clicked(s, card) ==
    IF ~s.is_core_running
    THEN R(s, <<Ev("ui", "page", 0, <<"warning", "start-service-first">>)>>)
    ELSE IF Len(s.tasks) >= MaxTasks THEN Blocked(s)
    ELSE R([s EXCEPT !.tasks = Append(@, NewTask("mount",
                                   <<"ensure_webdav_remote", "mount_send">>,
                                   <<card.config>>, s.core_process))], <<>>)

\* MountInterface.on_stop_clicked
on_stop_clicked(s, card) ==
    IF Len(s.tasks) >= MaxTasks THEN Blocked(s)
    ELSE R([s EXCEPT !.tasks = Append(@, NewTask("unmount", <<"unmount_send">>,
                                                 <<card.config>>, s.core_process))],
           <<Ev("ui", "page", 0, <<"success", "stopping">>)>>)

\* MountCard._onToggleMount
card_onToggleMount(s, card) ==
    IF card.is_mounted THEN on_stop_clicked(s, card) ELSE on_start_clicked(s, card)

\* cfg.set(cfg.mountConfigs, value): the value is kept and the file rewritten
cfg_set_mountConfigs(c, value) ==
    [c EXCEPT !.mountConfigs = value, !.mountFile = serialize(value)]

\* dialog.exec() returned true for a form filled in like this
Accepted(form) == Ev("accepted", "page", 0, form)

\* AddMountDialog.validate; names are the names the store holds
\* validate without the lookup of the name in the store
NameTaken_never(name, c) == FALSE

\* name in existing_names
NameTaken(name, c) == \E i \in 1..Len(c.mountConfigs) : c.mountConfigs[i].name = name
validate(form, is_edit_mode, original_name, c) ==
    LET name == Strip(form.name) IN
    /\ name # <<>> /\ Strip(form.remote_path) # <<>> /\ Strip(form.mount_point) # <<>>
    /\ \/ is_edit_mode /\ name = original_name
       \/ ~NameTaken(name, c)

\* MountInterface.add_mount_config after the first-use tip; accepted is the
\* user pressing the dialog's confirm button
add_mount_config(pg, c, form, accepted) ==
    IF ~accepted THEN [pg |-> pg, c |-> c, out |-> <<>>]
    ELSE IF ~validate(form, FALSE, <<>>, c)
    THEN [pg |-> pg, c |-> c, out |-> <<Ev("ui", "page", 0, <<"warning", "invalid-form">>)>>]
    ELSE LET new_config == get_mount_config(form, c.platform) IN
         [pg |-> add_mount_card(pg, new_config),
          c |-> cfg_set_mountConfigs(c, Append(c.mountConfigs, new_config)),
          out |-> <<Accepted(form), Ev("ui", "page", 0, <<"success", "added">>)>>]

\* MountInterface.on_settings_clicked for card i
on_settings_clicked(pg, s, c, i, form, accepted) ==
    LET card == pg.cards[i]
        old_name == card.config.name
    IN IF ~accepted THEN [pg |-> pg, s |-> s, c |-> c, out |-> <<>>, ok |-> TRUE]
       ELSE IF ~validate(form, TRUE, old_name, c)
       THEN [pg |-> pg, s |-> s, c |-> c, ok |-> TRUE,
             out |-> <<Ev("ui", "page", 0, <<"warning", "invalid-form">>)>>]
       ELSE LET updated_config == get_mount_config(form, c.platform)
                \* the new fs always names the remote "webdav"
                update == s.is_core_running /\ c.webdavAccountOk
                s1 == IF update
                      THEN [s EXCEPT !.tasks = Append(@, NewTask("update_remote",
                                          <<"update_guard", "update_send">>, <<>>,
                                          s.core_process))]
                      ELSE s
                pg1 == [pg EXCEPT !.cards = Remove(@, i)]
            IN [pg |-> add_mount_card(pg1, updated_config), s |-> s1,
                c |-> cfg_set_mountConfigs(c,
                        [j \in 1..Len(c.mountConfigs) |->
                            IF c.mountConfigs[j].name = old_name THEN updated_config
                            ELSE c.mountConfigs[j]]),
                ok |-> ~update \/ Len(s.tasks) < MaxTasks,
                out |-> <<Accepted(form), Ev("ui", "page", 0, <<"success", "updated">>)>>]

\* MountInterface.remove_mount_card for card i; the delete button is disabled
\* while the card is mounted.  delete_remote runs in the slot itself.
remove_mount_card(pg, s, c, i, accepted, outcome) ==
    LET card == pg.cards[i]
        c1 == cfg_set_mountConfigs(c, SelectSeq(c.mountConfigs,
                                                LAMBDA mc : mc.name # card.config.name))
        d == r_delete_remote(s, outcome)
    IN IF ~accepted THEN [pg |-> pg, s |-> s, c |-> c, out |-> <<>>, ok |-> TRUE]
       ELSE IF ~s.is_core_running
       THEN [pg |-> [pg EXCEPT !.cards = Remove(@, i)], s |-> s, c |-> c1, ok |-> TRUE,
             out |-> <<Ev("ui", "page", 0, <<"warning", "service-not-running">>)>>]
       ELSE IF d.result = "exception"
       THEN \* the slot unwinds before the card is removed
            [pg |-> pg, s |-> d.s, c |-> c1, out |-> d.out, ok |-> d.ok]
       ELSE [pg |-> [pg EXCEPT !.cards = Remove(@, i)], s |-> d.s, c |-> c1, ok |-> d.ok,
             out |-> d.out \o <<Ev("ui", "page", 0,
                                   <<IF d.result = "success" THEN "success" ELSE "warning",
                                     "delete_remote">>)>>]

\* ================================================================ the system
Op(op, c, p) == [op |-> op, c |-> c, p |-> p]
CoreIdle == rclone.core = <<>>

\* the configuration keys a run of controller `r` reads vary; the others are
\* held at a valid value
Configs(r) ==
    [alistWorkDirOk : IF r = "alist" THEN BOOLEAN ELSE {TRUE},
     rcloneWorkDirOk : IF r = "rclone" THEN BOOLEAN ELSE {TRUE},
     rcloneStartupParams : IF r = "rclone" THEN ParamChoices ELSE {FullParams},
     rcloneStartAfterAlist : {TRUE},
     webdavAccountOk : {TRUE}, platform : {"Windows"}, mountConfigs : {<<>>},
     mountFile : {serialize(<<>>)}]

\* QProcess objects a controller has created so far
Launched(s) == Cardinality({p \in Procs : s.procs[p].st # "unborn"})
StateEvents(o) == SelectSeq(o, LAMBDA e : e.k = "state")
\* the controller reports Running
IsRunning(c) == IF c = "alist" THEN alist.is_running ELSE rclone.is_core_running
\* the executable resolves and the startup parameters are valid
CanLaunch(c) ==
    IF c = "alist" THEN cfg.alistWorkDirOk
    ELSE cfg.rcloneWorkDirOk /\ IndexOf(cfg.rcloneStartupParams, "rcd") # 0

\* the observer's memory after a step `op` of controller c that emitted o
Observe(op, c, o) ==
    LET evs == StateEvents(o)
        asked == IF hist.restartAt # -1 THEN hist.restartAt
                 ELSE IF op = "restart" /\ IsRunning(c) /\ CanLaunch(c)
                 THEN Launched(IF c = "alist" THEN alist ELSE rclone)
                 ELSE -1
    IN [lastState |-> IF evs = <<>> THEN hist.lastState ELSE evs[Len(evs)].v[1],
        restartAt |-> IF \E i \in 1..Len(evs) : evs[i].v[1] = "Stopped" THEN -1 ELSE asked,
        again |-> /\ op = "on_mounts_info_updated" /\ last.op = op
                  /\ out[1].v = o[1].v]

Init ==
    /\ hist = [lastState |-> "none", restartAt |-> -1, again |-> FALSE]
    /\ run \in {"alist", "rclone"}
    /\ alist = AlistInit
    /\ rclone = RcloneInit
    /\ cfg \in Configs(run)
    /\ page = [cards |-> <<>>]
    /\ out = <<>>
    /\ last = Op("init", "", 0)

\* a step of AlistService alone
AlistStep(r, op, p) ==
    /\ r.ok
    /\ run \in {"alist", "sweep"}
    /\ alist' = r.s
    /\ out' = r.out
    /\ last' = Op(op, "alist", p)
    /\ hist' = Observe(op, "alist", r.out)
    /\ UNCHANGED <<rclone, cfg, page, run>>

\* a step of RcloneManager, and of the page's slots for the signals it emits
\* (what the slots emit follows what the step emitted)
RcloneStep(r, op, p) ==
    /\ r.ok
    /\ run \in {"rclone", "mount", "exit", "params", "sweep"}
    /\ rclone' = r.s
    /\ LET sl == Slots(page, r.out) IN page' = sl.pg /\ out' = r.out \o sl.out
    /\ last' = Op(op, "rclone", p)
    /\ hist' = Observe(op, "rclone", r.out)
    /\ UNCHANGED <<alist, cfg, run>>

\* a step of one of the page's handlers: r is [pg, s, c, out, ok]
PageStep(r, op) ==
    /\ r.ok
    /\ run \in {"mount", "store"}
    /\ rclone' = r.s
    /\ cfg' = r.c
    /\ LET sl == Slots(r.pg, r.out) IN page' = sl.pg /\ out' = r.out \o sl.out
    /\ last' = Op(op, "page", 0)
    /\ hist' = Observe(op, "rclone", r.out)
    /\ UNCHANGED <<alist, run>>

AStart == CoreIdle /\ AlistStep(a_start(alist, cfg), "start", 0)
AStop == CoreIdle /\ \E quick \in BOOLEAN : AlistStep(a_stop(alist, cfg, quick), "stop", 0)
ARestart ==
    CoreIdle /\ \E quick \in BOOLEAN : AlistStep(a_restart(alist, cfg, quick), "restart", 0)
ACleanup ==
    CoreIdle /\ \E quick \in BOOLEAN : AlistStep(a_cleanup(alist, cfg, quick), "cleanup", 0)

\* the process prints a line; readyRead runs _handle_main_output
AOutput ==
    /\ CoreIdle
    /\ \E p \in Procs, line \in AlistLines :
        /\ alist.procs[p].st = "alive"
        /\ AlistStep(a_handle_main_output(alist, p, line), "output", p)

\* the process exits by itself (or after terminate/kill); finished runs the slot
AExit ==
    /\ CoreIdle
    /\ \E p \in Procs :
        /\ IsLive(alist, p)
        /\ AlistStep(a_on_main_process_finished(
                        [alist EXCEPT !.procs[p].st = "dead"], cfg, p), "exit", p)

RStart == CoreIdle /\ RcloneStep(start_core_service(rclone, cfg), "start", 0)
\* the listing service reports Running
OnAlistStateChanged ==
    CoreIdle /\ RcloneStep(on_alist_state_changed(rclone, cfg), "on_alist_state_changed", 0)
RStop == CoreIdle /\ RcloneStep(stop_core_service(rclone, cfg), "stop", 0)
RRestart == CoreIdle /\ RcloneStep(restart_core_service(rclone, cfg), "restart", 0)
RCleanup ==
    CoreIdle /\ \E found \in Sweeps : RcloneStep(r_cleanup(rclone, cfg, found), "cleanup", 0)

\* the lines the daemon prints in a run: the mount page's runs need only the
\* readiness line
LinesOf(r) == IF r = "rclone" THEN RcloneLines
              ELSE {RcloneReadyLine("http://127.0.0.1:5572/")}

ROutput ==
    /\ CoreIdle
    /\ \E p \in Procs, line \in LinesOf(run) :
        /\ rclone.procs[p].st = "alive"
        /\ RcloneStep(r_handle_core_output(rclone, p, line), "output", p)

RExit ==
    /\ CoreIdle
    /\ \E p \in Procs :
        /\ IsLive(rclone, p)
        /\ RcloneStep(r_on_core_process_finished(
                         [rclone EXCEPT !.procs[p].st = "dead"]), "exit", p)

\* a check_termination timer fires
KillTimerFires ==
    /\ CoreIdle
    /\ \E i \in 1..Len(rclone.kill_timers) :
        RcloneStep(check_termination(
                       [rclone EXCEPT !.kill_timers = Remove(@, i)],
                       rclone.kill_timers[i]), "check_termination", rclone.kill_timers[i])

\* the restart timer fires: start_core_service
StartTimerFires ==
    /\ CoreIdle
    /\ rclone.start_timers > 0
    /\ RcloneStep(start_core_service([rclone EXCEPT !.start_timers = @ - 1], cfg),
                  "start_timer", 0)

\* the 500 ms timer fires: _initial_sync begins
SyncTimerFires ==
    /\ CoreIdle
    /\ rclone.sync_timers > 0
    /\ RcloneStep(R([rclone EXCEPT !.sync_timers = @ - 1, !.core = InitialSyncCalls],
                    <<Log("rclone", "initial-sync")>>), "initial_sync", 0)

\* the running handler makes its next call
CoreCall ==
    /\ rclone.core # <<>>
    /\ \E outcome \in Outcomes, flag \in BOOLEAN, mounts \in MountLists :
        RcloneStep(r_core_call([rclone EXCEPT !.core = Tail(@)], cfg, Head(rclone.core),
                               outcome, flag, mounts), Head(rclone.core), 0)

\* the status timer fires: refresh_mounts_info
StatusTimerFires ==
    /\ CoreIdle
    /\ rclone.status_timer.active
    /\ \E outcome \in Outcomes, mounts \in MountLists :
        RcloneStep(r_refresh_mounts_info(rclone, outcome, mounts), "refresh_mounts_info", 0)

\* a worker step's effect on the manager: the task moves on, timers are armed
Worked(s, i, r) ==
    [s |-> [s EXCEPT !.tasks[i] = r.task, !.refresh_timers = @ + r.arm],
     out |-> r.out, ok |-> s.refresh_timers + r.arm <= MaxTimers]

WorkerCheck ==
    \E i \in 1..Len(rclone.tasks) :
        /\ rclone.tasks[i].pc = "queued"
        /\ RcloneStep(Worked(rclone, i, worker_check(rclone.tasks[i], rclone, cfg)),
                      "worker_check", 0)

WorkerPost ==
    \E i \in 1..Len(rclone.tasks), outcome \in Outcomes, flag \in BOOLEAN :
        /\ rclone.tasks[i].pc = "posting"
        /\ RcloneStep(Worked(rclone, i, worker_post(rclone.tasks[i], rclone, outcome, flag)),
                      "worker_post", 0)

\* the finished task's continuation runs on the core thread
TaskDone ==
    /\ CoreIdle
    /\ \E i \in 1..Len(rclone.tasks) :
        /\ rclone.tasks[i].pc = "done"
        /\ RcloneStep(task_then([rclone EXCEPT !.tasks = Remove(@, i)], rclone.tasks[i]),
                      "task_then", 0)

\* the user edits the configuration store
SetConfig ==
    /\ CoreIdle
    /\ cfg' \in Configs(run) \ {cfg}
    /\ out' = <<>>
    /\ last' = Op("config", "", 0)
    /\ UNCHANGED <<alist, rclone, page, run, hist>>

Next ==
    \/ AStart \/ AStop \/ ARestart \/ ACleanup \/ AOutput \/ AExit
    \/ RStart \/ OnAlistStateChanged \/ RStop \/ RRestart \/ RCleanup \/ ROutput \/ RExit
    \/ KillTimerFires \/ StartTimerFires \/ SyncTimerFires \/ CoreCall
    \/ StatusTimerFires \/ WorkerCheck \/ WorkerPost \/ TaskDone
    \/ SetConfig

Spec == Init /\ [][Next]_vars

\* ---------------------------------------------------------------- mount runs
\* Runs of the mount page over a running or stopped daemon.  The store holds
\* one MountConfig made by the dialog from one of these forms.
Platforms == {"Windows", "Darwin"}
DocsForm ==
    [name |-> <<"d", "o", "c", "s">>, remote_path |-> <<"d", "o", "c", "s">>,
     mount_point |-> <<"Z">>, auto_mount |-> TRUE, network_mode |-> TRUE,
     cache_id |-> 3, extra_args |-> <<"-", "v", " ", " ", "-", "q">>]
MediaForm ==
    [name |-> <<"m", "1">>, remote_path |-> <<"/", "d", "o", "c", "s">>,
     mount_point |-> <<"7">>, auto_mount |-> FALSE, network_mode |-> FALSE,
     cache_id |-> 1, extra_args |-> <<>>]
MountInits ==
    {<<"Windows", DocsForm>>, <<"Darwin", [DocsForm EXCEPT !.cache_id = 0]>>,
     <<"Windows", MediaForm>>}
EditForm ==
    [MediaForm EXCEPT !.name = <<"m", "2">>, !.mount_point = <<"/", "m">>, !.cache_id = 2]

\* the forms a dialog may be filled with
MaxConfigs == 2     \* MountConfigs the store holds
MusicForm ==
    [name |-> <<"a">>, remote_path |-> <<"/", "m", "u", "s", "i", "c">>,
     mount_point |-> <<"Z">>, auto_mount |-> TRUE, network_mode |-> TRUE,
     cache_id |-> 0, extra_args |-> <<>>]
StoreForms ==
    {MusicForm,
     \* the same name typed with blanks around it, a path without the slash
     [MusicForm EXCEPT !.name = <<" ", "a", " ">>,
                       !.remote_path = <<"m", "u", "s", "i", "c">>,
                       !.mount_point = <<"/", "m">>, !.cache_id = 1,
                       !.extra_args = <<" ", "-", "v", " ", " ", "-", "q">>],
     \* a path typed with a backslash, a mount point that is no letter
     [MusicForm EXCEPT !.name = <<"b">>, !.remote_path = <<"\\", "m", "u", "s", "i", "c">>,
                       !.mount_point = <<"7">>, !.cache_id = 2, !.network_mode = FALSE],
     \* a name with a quote in it, the root path
     [MusicForm EXCEPT !.name = <<"b", "\"">>, !.remote_path = <<"/">>,
                       !.mount_point = <<"x">>, !.cache_id = 3, !.auto_mount = FALSE],
     \* a form with no name
     [MusicForm EXCEPT !.name = <<" ">>]}
FormsOf(r) == IF r = "mount" THEN {EditForm} ELSE StoreForms

MountInit ==
    /\ hist = [lastState |-> "none", restartAt |-> -1, again |-> FALSE]
    /\ run = "mount"
    /\ alist = AlistInit
    /\ rclone = RcloneInit
    /\ \E init \in MountInits :
          LET pf == init[1]
              f == init[2]
          IN
          cfg = [alistWorkDirOk |-> TRUE, rcloneWorkDirOk |-> TRUE,
                 rcloneStartupParams |-> FullParams, rcloneStartAfterAlist |-> TRUE,
                 webdavAccountOk |-> TRUE, platform |-> pf,
                 mountConfigs |-> <<get_mount_config(f, pf)>>,
                 mountFile |-> serialize(<<get_mount_config(f, pf)>>)]
    /\ page = LoadCards([cards |-> <<>>], cfg.mountConfigs)
    /\ out = <<>>
    /\ last = Op("init", "", 0)

\* the daemon is started from the page
MStart == Launched(rclone) < MaxMountLaunches /\ RStart

\* the user presses a card's mount/unmount button
OnToggleMount ==
    /\ CoreIdle
    /\ \E i \in 1..Len(page.cards) :
        RcloneStep(card_onToggleMount(rclone, page.cards[i]),
                   IF page.cards[i].is_mounted THEN "on_stop_clicked"
                   ELSE "on_start_clicked", 0)

\* the user presses a card's settings button (enabled while not mounted)
OnSettingsClicked ==
    /\ CoreIdle
    /\ \E i \in 1..Len(page.cards), form \in FormsOf(run), accepted \in BOOLEAN :
        /\ ~page.cards[i].is_mounted
        /\ PageStep(on_settings_clicked(page, rclone, cfg, i, form, accepted),
                    "on_settings_clicked")

\* the user presses a card's delete button (enabled while not mounted)
RemoveMountCard ==
    /\ CoreIdle
    /\ \E i \in 1..Len(page.cards), accepted \in BOOLEAN, outcome \in Outcomes :
        /\ ~page.cards[i].is_mounted
        /\ PageStep(remove_mount_card(page, rclone, cfg, i, accepted, outcome),
                    "remove_mount_card")

\* unmount_all is called
UnmountAll ==
    /\ CoreIdle
    /\ \E outcome \in Outcomes : RcloneStep(r_unmount_all(rclone, outcome), "unmount_all", 0)

\* the 2000 ms timer fires: start_auto_mounts begins
AutoMountTimerFires ==
    /\ CoreIdle
    /\ rclone.automount_timers > 0
    /\ RcloneStep(start_auto_mounts([rclone EXCEPT !.automount_timers = @ - 1], cfg),
                  "start_auto_mounts", 0)

\* a 1000 ms refresh timer fires; one armed on a worker thread, which runs no
\* event loop, may never fire
RefreshTimerFires ==
    /\ CoreIdle
    /\ rclone.refresh_timers > 0
    /\ \/ \E outcome \in Outcomes, mounts \in MountLists :
            RcloneStep(r_refresh_mounts_info([rclone EXCEPT !.refresh_timers = @ - 1],
                                             outcome, mounts), "refresh_timer", 0)
       \/ RcloneStep(R([rclone EXCEPT !.refresh_timers = @ - 1], <<>>),
                     "refresh_timer_lost", 0)

MountNext ==
    \/ MStart \/ RStop \/ ROutput \/ RExit \/ KillTimerFires \/ StatusTimerFires
    \/ WorkerCheck \/ WorkerPost \/ TaskDone
    \/ OnToggleMount \/ OnSettingsClicked \/ RemoveMountCard \/ UnmountAll
    \/ RefreshTimerFires \/ CoreCall

MountSpec == MountInit /\ [][MountNext]_vars

\* ---------------------------------------------------------------- store runs
\* Runs of the dialogs and the page over the configuration store, the daemon
\* standing by: the user adds, edits and deletes MountConfigs, the program is
\* restarted, and live mount lists are delivered to the page.
MusicFs == Webdav \o <<"/", "m", "u", "s", "i", "c">>
\* live lists: nothing, "webdav:music", "webdav:/music" next to another mount,
\* and a mount of something else
LiveLists ==
    {<<>>, <<Webdav \o <<"m", "u", "s", "i", "c">>>>,
     <<Webdav \o <<"o", "t", "h", "e", "r">>, MusicFs>>,
     <<Webdav \o <<"/", "m", "u", "s", "i", "c", "2">>>>,
     <<Webdav>>}

StoreInit ==
    /\ hist = [lastState |-> "none", restartAt |-> -1, again |-> FALSE]
    /\ run = "store"
    /\ alist = AlistInit
    /\ rclone = RcloneInit
    /\ \E pf \in Platforms :
          cfg = [alistWorkDirOk |-> TRUE, rcloneWorkDirOk |-> TRUE,
                 rcloneStartupParams |-> FullParams, rcloneStartAfterAlist |-> TRUE,
                 webdavAccountOk |-> TRUE, platform |-> pf,
                 mountConfigs |-> <<>>, mountFile |-> serialize(<<>>)]
    /\ page = [cards |-> <<>>]
    /\ out = <<>>
    /\ last = Op("init", "", 0)

\* the user presses "add mount" and fills in the dialog
AddMountConfig ==
    /\ Len(cfg.mountConfigs) < MaxConfigs
    /\ \E form \in StoreForms, accepted \in BOOLEAN :
        LET r == add_mount_config(page, cfg, form, accepted) IN
        PageStep([pg |-> r.pg, s |-> rclone, c |-> r.c, out |-> r.out, ok |-> TRUE],
                 "add_mount_config")

\* the daemon's mountsInfoUpdated arrives with a live list
OnMountsInfoUpdated ==
    /\ run = "store"
    /\ \E mounts \in LiveLists :
        PageStep([pg |-> page, s |-> rclone, c |-> cfg, ok |-> TRUE,
                  out |-> <<Ev("mountsInfo", "rclone", 0, mounts)>>],
                 "on_mounts_info_updated")

\* the program is started again: the store is read from its file and the
\* page builds its cards from it
Restart ==
    /\ run = "store"
    /\ LET stored == deserialize(cfg.mountFile) IN
       PageStep([pg |-> LoadCards([cards |-> <<>>], stored), s |-> rclone,
              c |-> [cfg EXCEPT !.mountConfigs = stored], ok |-> TRUE, out |-> <<>>],
             "restart")

StoreNext ==
    \/ AddMountConfig \/ OnSettingsClicked \/ RemoveMountCard
    \/ OnMountsInfoUpdated \/ Restart

StoreSpec == StoreInit /\ [][StoreNext]_vars

\* ---------------------------------------------------------------- exit runs
\* Runs from the daemon's start to the application's exit: the daemon is
\* started, reports ready, the initial synchronization and the auto-mount pass
\* run, and the window is closed (cleanup) at any moment.
ExitInits ==
    {<<"Darwin", <<DocsForm>>>>, <<"Windows", <<DocsForm>>>>,
     \* two entries flagged autoMount
     <<"Windows", <<DocsForm, [MusicForm EXCEPT !.mount_point = <<"Y">>]>>>>,
     \* an entry that is not flagged before one that is
     <<"Windows", <<MediaForm, DocsForm>>>>}

ExitInit ==
    /\ hist = [lastState |-> "none", restartAt |-> -1, again |-> FALSE]
    /\ run = "exit"
    /\ alist = AlistInit
    /\ rclone = RcloneInit
    /\ \E init \in ExitInits :
          LET pf == init[1]
              mcs == [i \in 1..Len(init[2]) |-> get_mount_config(init[2][i], pf)]
          IN
          cfg = [alistWorkDirOk |-> TRUE, rcloneWorkDirOk |-> TRUE,
                 rcloneStartupParams |-> FullParams, rcloneStartAfterAlist |-> TRUE,
                 webdavAccountOk |-> TRUE, platform |-> pf,
                 mountConfigs |-> mcs, mountFile |-> serialize(mcs)]
    /\ page = LoadCards([cards |-> <<>>], cfg.mountConfigs)
    /\ out = <<>>
    /\ last = Op("init", "", 0)

ExitNext ==
    \/ MStart \/ ROutput \/ RExit \/ SyncTimerFires \/ CoreCall
    \/ AutoMountTimerFires \/ RefreshTimerFires \/ StatusTimerFires
    \/ RCleanup \/ WorkerCheck \/ WorkerPost \/ TaskDone \/ KillTimerFires

ExitSpec == ExitInit /\ [][ExitNext]_vars

\* ---------------------------------------------------------------- start runs
\* Runs of start_core_service over the startup parameter lists the settings
\* page may have stored: complete, without the daemon-mode token, without a
\* credential flag, with a credential flag that has no value after it.
StartParams ==
    {FullParams, NoRcdParams,
     <<"rcd">>,
     <<"rcd", "--rc-pass", "secret">>,
     <<"rcd", "--rc-user", "admin">>,
     <<"rcd", "--rc-user", "admin", "--rc-pass">>,
     <<"rcd", "--rc-pass", "secret", "--rc-user">>,
     <<"--rc-user", "admin">>,
     <<>>}

ParamsInit ==
    /\ hist = [lastState |-> "none", restartAt |-> -1, again |-> FALSE]
    /\ run = "params"
    /\ alist = AlistInit
    /\ rclone = RcloneInit
    /\ \E ps \in StartParams :
          cfg = [alistWorkDirOk |-> TRUE, rcloneWorkDirOk |-> TRUE,
                 rcloneStartupParams |-> ps, rcloneStartAfterAlist |-> TRUE,
                 webdavAccountOk |-> TRUE, platform |-> "Windows",
                 mountConfigs |-> <<>>, mountFile |-> serialize(<<>>)]
    /\ page = [cards |-> <<>>]
    /\ out = <<>>
    /\ last = Op("init", "", 0)

ParamsNext ==
    \/ RStart \/ ROutput \/ RExit \/ RStop \/ WorkerCheck \/ WorkerPost \/ TaskDone
    \/ KillTimerFires

ParamsSpec == ParamsInit /\ [][ParamsNext]_vars

\* ---------------------------------------------------------------- close runs
\* Runs of one controller that end with the main window being closed.
\* MainWindow.closeEvent: with the tray icon enabled the window is hidden (on
\* macOS a close that does not come from the window system also runs the
\* daemon's cleanup); without it the user is asked, and on "yes" the daemon's
\* cleanup runs and QApplication.quit() is called.  `quit` tells whether the
\* application quits.
closeEvent(s, c, tray, spontaneous, accepted, found) ==
    LET r == r_cleanup(s, c, found) IN
    IF tray
    THEN IF c.platform = "Darwin" /\ ~spontaneous
         THEN [s |-> r.s, out |-> r.out, ok |-> r.ok, quit |-> FALSE]
         ELSE [s |-> s, out |-> <<Ev("ui", "window", 0, <<"hidden">>)>>, ok |-> TRUE,
               quit |-> FALSE]
    ELSE IF accepted
    THEN [s |-> r.s, out |-> r.out \o <<Ev("ui", "window", 0, <<"quit">>)>>, ok |-> r.ok,
          quit |-> TRUE]
    ELSE [s |-> s, out |-> <<>>, ok |-> TRUE, quit |-> FALSE]

\* the window is closed; once the application has quit no handler runs
CloseEvent ==
    /\ CoreIdle
    /\ run \in {"alist", "rclone"}
    /\ \E tray \in BOOLEAN, spontaneous \in BOOLEAN, accepted \in BOOLEAN, found \in Sweeps :
         LET r == closeEvent(rclone, cfg, tray, spontaneous, accepted, found) IN
         /\ r.ok
         /\ rclone' = r.s
         /\ out' = r.out
         /\ run' = IF r.quit THEN "closed" ELSE run
         /\ last' = Op("closeEvent", "window", 0)
         /\ hist' = Observe("closeEvent", "rclone", r.out)
         /\ UNCHANGED <<alist, cfg, page>>

CloseNext ==
    \/ AStart \/ AOutput \/ AExit \/ AStop
    \/ RStart \/ ROutput \/ RExit \/ RStop
    \/ WorkerCheck \/ WorkerPost \/ TaskDone \/ KillTimerFires
    \/ CloseEvent

CloseSpec == Init /\ [][CloseNext]_vars

\* ---------------------------------------------------------------- session start
\* Runs of the first moments of a session: MainWindow.onInitFinished has
\* handed killProcess to the worker pool, and meanwhile the listing service
\* is started (by the 500 ms auto-start timer of HomeInterface or by the
\* user) and the daemon is started (by the user, or when the listing service
\* reports Running).

\* taskkill /F /IM <name> /T, killall -9 <name>: every process of controller
\* c with that name is killed, this session's children included
kill_by_name(s, c) ==
    LET hit == {p \in Procs : s.procs[p].st = "alive"}
        kills == [p \in Procs |->
                     IF p \in hit THEN <<Ev("sweep_kill", c, p, <<>>)>> ELSE <<>>]
    IN [s |-> [s EXCEPT !.procs = [p \in Procs |->
                                     IF p \in hit THEN [@[p] EXCEPT !.st = "killed"]
                                     ELSE @[p]]],
        out |-> <<Ev("subprocess", "window", 0, <<"kill", c>>)>> \o Flatten(kills)]

\* the task MainWindow.onInitFinished queues: killAlistProcess, killRcloneProcess
KillProcessTask == NewTask("killProcess", <<"killAlistProcess", "killRcloneProcess">>, <<>>, 0)

SweepInit ==
    /\ hist = [lastState |-> "none", restartAt |-> -1, again |-> FALSE]
    /\ run = "sweep"
    /\ alist = AlistInit
    /\ rclone = [RcloneInit EXCEPT !.tasks = <<KillProcessTask>>]
    /\ cfg = [alistWorkDirOk |-> TRUE, rcloneWorkDirOk |-> TRUE,
              rcloneStartupParams |-> FullParams, rcloneStartAfterAlist |-> TRUE,
              webdavAccountOk |-> TRUE, platform |-> "Windows",
              mountConfigs |-> <<>>, mountFile |-> serialize(<<>>)]
    /\ page = [cards |-> <<>>]
    /\ out = <<>>
    /\ last = Op("init", "", 0)

\* the worker runs the next function of killProcess
SweepKill ==
    /\ run = "sweep"
    /\ \E i \in 1..Len(rclone.tasks) :
        LET task == rclone.tasks[i]
            next == Proceed(task, Tail(task.todo))
        IN
        /\ task.kind = "killProcess" /\ task.pc = "queued"
        /\ IF Head(task.todo) = "killAlistProcess"
           THEN LET r == kill_by_name(alist, "alist") IN
                /\ alist' = r.s
                /\ rclone' = [rclone EXCEPT !.tasks[i] = next]
                /\ out' = r.out
           ELSE LET r == kill_by_name(rclone, "rclone") IN
                /\ alist' = alist
                /\ rclone' = [r.s EXCEPT !.tasks[i] = next]
                /\ out' = r.out
        /\ last' = Op(Head(task.todo), "window", 0)
        /\ hist' = hist
        /\ UNCHANGED <<cfg, page, run>>

\* MainWindow._onProcessCleanup, the continuation of killProcess
SweepDone ==
    /\ run = "sweep"
    /\ CoreIdle
    /\ \E i \in 1..Len(rclone.tasks) :
        /\ rclone.tasks[i].kind = "killProcess" /\ rclone.tasks[i].pc = "done"
        /\ rclone' = [rclone EXCEPT !.tasks = Remove(@, i)]
        /\ out' = <<Ev("ui", "window", 0, <<"splash-finished">>)>>
        /\ last' = Op("onProcessCleanup", "window", 0)
        /\ hist' = hist
        /\ UNCHANGED <<alist, cfg, page, run>>

SweepNext ==
    \/ AStart \/ AOutput \/ AExit \/ OnAlistStateChanged \/ RStart \/ ROutput \/ RExit
    \/ SweepKill \/ SweepDone

SweepSpec == SweepInit /\ [][SweepNext]_vars


\* ================================================================ properties
\* the controller this run exercises
Ctl == IF run = "alist" THEN alist ELSE rclone
Live(s) == {p \in Procs : s.procs[p].st = "alive"}
HasEv(o, k) == \E i \in 1..Len(o) : o[i].k = k
RunningEvent(e) == e.k = "state" /\ e.v[1] = "Running"

\* C1: after a restart requested while the controller is Running with a
\* resolvable executable and valid parameters, no Running event of a process
\* launched after the request is emitted before a Stopped event has been
\* emitted.
C1_StoppedBeforeRelaunchedRunning ==
    hist.restartAt # -1 =>
        \A i \in 1..Len(out) : ~(RunningEvent(out[i]) /\ out[i].p > hist.restartAt)

\* C2: the forced kill issued by the 3000 ms fallback goes only to the
\* process instance that received the terminate request arming it.
C2_KillOnlyTerminatedInstance ==
    \A i \in 1..Len(out) :
        (out[i].k = "kill" /\ out[i].c = "rclone")
            => out[i].v = <<"armedFor", ToString(out[i].p)>>

\* C3: a start call made while the controller is Running changes nothing of
\* the controller (handle, flags, URL, port, processes), emits only the
\* "already running" log line, and exactly one child is live afterwards.
C3_StartWhileRunningIsNoOp ==
    [][(last'.op = "start" /\ IsRunning(run))
          => /\ Ctl' = Ctl
             /\ out' = <<Log(run, "already-running")>>
             /\ Cardinality(Live(Ctl')) = 1]_vars

\* C4: in every reachable state each controller has at most one live child
\* process.
C4_AtMostOneLiveChild ==
    Cardinality(Live(alist)) <= 1 /\ Cardinality(Live(rclone)) <= 1

\* C5: stop_core_service called on a Running daemon that is not stopping
\* queues the /mount/unmountall command; when that task has finished, whatever
\* its result, the daemon process it was queued for receives a terminate
\* request if it is still the live handle; and no terminate request is made
\* before the command has been sent.
C5_UnmountThenTerminate ==
    [][/\ (last'.op = "stop" /\ run = "rclone"
              /\ rclone.is_core_running /\ ~rclone.is_stopping)
            => Len(rclone'.tasks) = Len(rclone.tasks) + 1
       /\ \A i \in 1..Len(out') :
            (out'[i].k = "task_done" /\ out'[i].v[1] = "stop_unmount"
                /\ rclone.core_process = out'[i].p /\ IsLive(rclone, out'[i].p))
              => \E j \in 1..Len(out') :
                    out'[j].k = "terminate" /\ out'[j].p = out'[i].p
       /\ \A j \in 1..Len(out') :
            (out'[j].k = "terminate" /\ out'[j].c = "rclone")
              => \E i \in 1..Len(out') :
                    out'[i].k = "task_done" /\ out'[i].v[2] \in {"ok", "err"}]_vars

\* C6: a Running state event is never emitted when the previous state event
\* of the controller was also Running.
C6_NoRunningAfterRunning ==
    [][LET evs == StateEvents(out') IN
       \A i \in 1..Len(evs) :
           evs[i].v[1] = "Running"
             => (IF i = 1 THEN hist.lastState ELSE evs[i - 1].v[1]) # "Running"]_vars

\* C7: a stop call made while the controller is not Running leaves the whole
\* controller unchanged and launches nothing, sends no control command, no
\* terminate or kill request and no state event.
C7_StopWhileStoppedIsNoOp ==
    [][(last'.op = "stop" /\ ~IsRunning(run))
          => /\ Ctl' = Ctl
             /\ \A i \in 1..Len(out') :
                   out'[i].k \notin {"launch", "http", "terminate", "kill", "state"}]_vars

\* a second stop on a controller that has run and stopped
C7_Witness ==
    /\ last.op = "stop" /\ ~IsRunning(run) /\ hist.lastState = "Stopped"
    /\ \/ run = "alist" /\ out = <<Log("alist", "not-running")>>
       \/ run = "rclone" /\ out = <<>>

\* the work directory of the run's controller holds its executable
WorkDirOk == IF run = "alist" THEN cfg.alistWorkDirOk ELSE cfg.rcloneWorkDirOk

\* C8: a start call made while the controller is not Running and the work
\* directory holds no valid executable emits exactly the
\* ConfigurationRequired notification, creates no process, and leaves the
\* running flag, URL and port as they were (not Running).
C8_StartWithoutExecutable ==
    [][(last'.op = "start" /\ ~IsRunning(run) /\ ~WorkDirOk)
          => /\ out' = <<Ev("configurationRequired", run, 0, <<>>)>>
             /\ Ctl'.procs = Ctl.procs
             /\ ~IsRunning(run)'
             /\ run = "alist" => <<alist'.url, alist'.port, alist'.pid>> = <<None, None, 0>>
             /\ run = "rclone" => rclone' = rclone]_vars

C8_Witness ==
    /\ last.op = "start" /\ ~IsRunning(run) /\ ~WorkDirOk
    /\ out = <<Ev("configurationRequired", run, 0, <<>>)>>
    /\ Live(Ctl) = {}

\* the line a step of _handle_core_output logged, <<>> if it logged none
CoreLine(o) ==
    IF o # <<>> /\ o[1].k = "log" /\ o[1].v[1] = "[Core]" THEN Tail(o[1].v) ELSE <<>>
\* the readiness lines end in the URL
LastWord(line) == <<line[Len(line)]>>

\* C9: a readiness line handled while the daemon is not Running makes it
\* Running with rc_url the text after "on ", emits exactly one Running event
\* carrying that URL, and starts the 5000 ms status timer; the timer is
\* active exactly while the daemon is Running and only the exit handler stops
\* it.
C9_ReadinessLine ==
    [][/\ (last'.op = "output" /\ run = "rclone" /\ ~rclone.is_core_running
              /\ HasServingPhrase(CoreLine(out')))
            => LET url == LastWord(CoreLine(out')) IN
               /\ rclone'.is_core_running
               /\ rclone'.rc_url = url
               /\ StateEvents(out')
                     = <<Ev("state", "rclone", rclone.core_process, <<"Running">> \o url)>>
               /\ rclone'.status_timer = [active |-> TRUE, interval |-> StatusPollMs]
       /\ rclone'.status_timer.active <=> rclone'.is_core_running
       /\ (rclone.status_timer.active /\ ~rclone'.status_timer.active)
            => last'.op = "exit"]_vars

C9_Witness ==
    /\ last.op = "output" /\ rclone.is_core_running
    /\ rclone.rc_url = <<"http://127.0.0.1:5572/">>
    /\ HasEv(out, "state") /\ rclone.status_timer.active

\* the steps in which _send_rc_command evaluates its precondition
SendOps ==
    {"list_remotes", "ensure_webdav_remote", "refresh_mounts_info", "worker_check"}

\* C10: a control command sent while the daemon is not Running or has no
\* control URL makes no HTTP request, emits the ServiceNotRunning error
\* notification and yields no result.
C10_NotReadySendsNothing ==
    [][(last'.op \in SendOps \cup {"create_webdav_remote"} /\ run = "rclone"
          /\ (~rclone.is_core_running \/ rclone.rc_url = None))
        => /\ ~HasEv(out', "http")
           /\ \A i \in 1..Len(out') :
                out'[i].k = "rc_return" => out'[i].v[2] = "none"
           /\ last'.op \in SendOps
                => \E i \in 1..Len(out') :
                      out'[i].k = "error" /\ out'[i].v[1] = "ServiceNotRunning"
           /\ last'.op = "worker_check"
                => /\ \E i \in 1..Len(rclone.tasks) :
                        /\ rclone.tasks[i].pc = "queued"
                        /\ rclone'.tasks[i].pc = "done" /\ rclone'.tasks[i].resp = "none"
                   /\ \A i \in 1..Len(rclone.tasks) :
                        rclone'.tasks[i].pc = "posting" => rclone.tasks[i].pc = "posting"]_vars

C10_Witness ==
    /\ last.op \in SendOps /\ ~rclone.is_core_running
    /\ \E i \in 1..Len(out) : out[i].k = "error" /\ out[i].v[1] = "ServiceNotRunning"
    /\ ~HasEv(out, "http")

\* ---------------------------------------------------------------- C11
\* the mount operations: tasks of the page that run mount, unmount and
\* update_remote, and the steps that call unmount_all and delete_remote
MountTaskKinds == {"mount", "unmount", "update_remote"}
MountCallOps == {"unmount_all", "remove_mount_card"}

\* C11: mount, unmount, unmount_all, update_remote and delete_remote never let
\* an exception unwind, whatever the controller's state and whatever the
\* request ends in: no task running one of them ends by raising, and no step
\* calling one of them emits an exception.
C11_MountOpsNeverRaise ==
    /\ \A i \in 1..Len(rclone.tasks) :
          rclone.tasks[i].kind \in MountTaskKinds => rclone.tasks[i].result # "exception"
    /\ last.op \in MountCallOps => ~HasEv(out, "exception")

\* ---------------------------------------------------------------- C12
\* live is fs with the "/" that directly follows the first colon taken out
SameButRootSlash(live, fs) ==
    \E k \in 1..(Len(fs) - 1) :
        /\ fs[k] = ":" /\ fs[k + 1] = "/"
        /\ \A j \in 1..(k - 1) : fs[j] # ":"
        /\ live = SubSeq(fs, 1, k) \o SubSeq(fs, k + 2, Len(fs))
LiveMatch(live, fs) == live = fs \/ SameButRootSlash(live, fs)

\* C12: when a live mount list is delivered to the page, every card is
\* reported mounted if and only if the list has an entry whose Fs is the
\* card's fs or the card's fs without the "/" after the remote-name colon;
\* the others are reported unmounted, no card is lost and nothing is raised.
C12_MountedIffLiveMatch ==
    [][last'.op = "on_mounts_info_updated" =>
        LET live == out'[1].v IN
        /\ Len(page'.cards) = Len(page.cards)
        /\ \A i \in 1..Len(page.cards) :
              /\ page'.cards[i].config = page.cards[i].config
              /\ page'.cards[i].is_mounted <=>
                    \E j \in 1..Len(live) : LiveMatch(live[j], page.cards[i].config.fs)
        /\ ~HasEv(out', "exception") /\ ~HasEv(out', "error")]_vars

\* a card is reported mounted for a live entry that is not its fs as written
C12_Witness ==
    /\ last.op = "on_mounts_info_updated"
    /\ \E i \in 1..Len(page.cards) :
          /\ page.cards[i].is_mounted
          /\ page.cards[i].config.fs \notin Elems(out[1].v)
    /\ \E i \in 1..Len(page.cards) : ~page.cards[i].is_mounted

\* ---------------------------------------------------------------- C13
\* the request bodies a step handed to _send_rc_command for endpoint ep
Bodies(o, ep) == {o[i].v.body : i \in {j \in 1..Len(o) : o[j].k = "payload" /\ o[j].v.ep = ep}}
\* the task whose call `call` a worker step is making
Calling(s, call) ==
    {i \in 1..Len(s.tasks) : s.tasks[i].pc = "queued" /\ s.tasks[i].todo # <<>>
                             /\ Head(s.tasks[i].todo) = call}
\* the mount point as the daemon is to see it
DriveForm(mp, platform) ==
    IF platform = "Windows" /\ Len(mp) = 1
       /\ \E k \in 1..26 : mp[1] = Lowers[k] \/ mp[1] = Uppers[k]
    THEN <<mp[1], ":">>
    ELSE mp
\* flags are the maximal blank-free runs of text, in order
IsSplitOf(flags, text) ==
    /\ Flatten(flags) = SelectSeq(text, LAMBDA ch : ch # " ")
    /\ \A i \in 1..Len(flags) : flags[i] # <<>> /\ \A k \in 1..Len(flags[i]) : flags[i][k] # " "
    /\ Len(flags) = Cardinality({i \in 1..Len(text) :
                                    text[i] # " " /\ (i = 1 \/ text[i - 1] = " ")})
CacheCodes == {<<ModeOff, 0>>, <<ModeMinimal, 1>>, <<ModeWrites, 2>>, <<ModeFull, 3>>}

\* C13: the body of every /mount/mount request is built from the task's
\* MountConfig as stated (fs, mountPoint in drive form, AllowOther,
\* AllowNonEmpty, VolumeName, ExtraFlags, CacheMode), and the body of every
\* /mount/unmount request carries the mount point in the same drive form.
C13_MountPayload ==
    [][last'.op = "worker_check" =>
        /\ \A b \in Bodies(out', "/mount/mount") :
              \E i \in Calling(rclone, "mount_send") :
                 LET mc == rclone.tasks[i].arg[1] IN
                 /\ b.fs = mc.fs
                 /\ b.mountPoint = DriveForm(mc.mount_point, cfg.platform)
                 /\ b.AllowOther = mc.network_mode
                 /\ b.AllowNonEmpty = TRUE
                 /\ Len(b.VolumeName) = Len(mc.name)
                 /\ \A k \in 1..Len(mc.name) : b.VolumeName[k] = UpperCh(mc.name[k])
                 /\ IsSplitOf(b.ExtraFlags, mc.extra_args)
                 /\ <<mc.vfs_cache_mode, b.CacheMode>> \in CacheCodes
        /\ \A b \in Bodies(out', "/mount/unmount") :
              \E i \in Calling(rclone, "unmount_send") :
                 b.mountPoint = DriveForm(rclone.tasks[i].arg[1].mount_point, cfg.platform)]_vars

\* a one-letter mount point was sent in drive form, with flags split off
C13_Witness ==
    /\ last.op = "worker_check"
    /\ \E b \in Bodies(out, "/mount/mount") :
          b.mountPoint = <<"Z", ":">> /\ Len(b.ExtraFlags) = 2

\* ---------------------------------------------------------------- C14
\* the forms a step's dialogs were accepted with
AcceptedForms(o) == {o[i].v : i \in {j \in 1..Len(o) : o[j].k = "accepted"}}
\* the stored MountConfig a form was turned into
StoredFor(form, c) ==
    {c.mountConfigs[i] : i \in {j \in 1..Len(c.mountConfigs) :
                                    c.mountConfigs[j].name = Strip(form.name)}}
SlashMusic == <<"/", "m", "u", "s", "i", "c">>
BareMusic == <<"m", "u", "s", "i", "c">>
BackslashMusic == <<"\\", "m", "u", "s", "i", "c">>
HasPrefix(s, pre) == Len(s) >= Len(pre) /\ SubSeq(s, 1, Len(pre)) = pre
\* what holds of every derived fs on every platform
FsWellFormed(mc, platform) ==
    /\ HasPrefix(mc.fs, Webdav \o <<"/">>)
    /\ get_mount_config(populate_form(mc), platform).fs = mc.fs
    /\ get_mount_config(populate_form(mc), platform).remote_path = mc.remote_path

\* C14 as stated: "/music", "music" and "\music" all give "webdav:/music", and
\* every derived fs starts with "webdav:/", has forward slashes only and is
\* derived again unchanged from the stored remote path.
C14_FsSameForAllSpellings ==
    [][\A form \in AcceptedForms(out') : \A mc \in StoredFor(form, cfg') :
          /\ Strip(form.remote_path) \in {SlashMusic, BareMusic, BackslashMusic}
                => mc.fs = MusicFs
          /\ \A k \in 1..Len(mc.fs) : mc.fs[k] # "\\"
          /\ FsWellFormed(mc, cfg.platform)]_vars

\* C14 (amended): "/music" and "music" give "webdav:/music" on every
\* platform; "\music" does, and the fs has forward slashes only, on the
\* platform whose separator is the backslash (Windows); every derived fs
\* starts with "webdav:/" and is derived again unchanged from the stored
\* remote path.
C14_FsExpression ==
    [][\A form \in AcceptedForms(out') : \A mc \in StoredFor(form, cfg') :
          /\ Strip(form.remote_path) \in {SlashMusic, BareMusic} => mc.fs = MusicFs
          /\ cfg.platform = "Windows" =>
                /\ Strip(form.remote_path) = BackslashMusic => mc.fs = MusicFs
                /\ \A k \in 1..Len(mc.fs) : mc.fs[k] # "\\"
          /\ FsWellFormed(mc, cfg.platform)]_vars

\* on Windows a path typed with a backslash was stored as "webdav:/music"
C14_Witness ==
    /\ cfg.platform = "Windows"
    /\ \E form \in AcceptedForms(out) :
          /\ Strip(form.remote_path) = BackslashMusic
          /\ \E mc \in StoredFor(form, cfg) : mc.fs = MusicFs

\* ---------------------------------------------------------------- C15
\* the fs that belongs to a stored remote path
FsOf(remote_path) ==
    IF remote_path \in {<<>>, <<"/">>} THEN Webdav \o <<"/">> ELSE Webdav \o remote_path

UniqueNames(list) ==
    \A i, j \in 1..Len(list) : list[i].name = list[j].name => i = j

\* C16: whatever was added, edited (renamed) and deleted through the dialogs
\* and the page, no two persisted MountConfigs have the same name, in the
\* store's value and in its file alike.
C16_UniqueNames ==
    UniqueNames(cfg.mountConfigs) /\ UniqueNames(deserialize(cfg.mountFile))

\* an edit of the first of two entries was accepted and stored under a name
\* the second does not have
C16_Witness ==
    /\ last.op = "on_settings_clicked" /\ AcceptedForms(out) # {}
    /\ Len(cfg.mountConfigs) = 2
    /\ \E f \in AcceptedForms(out) :
          /\ cfg.mountConfigs[1].name = Strip(f.name)
          /\ cfg.mountConfigs[2].name # Strip(f.name)

\* ---------------------------------------------------------------- C17
Flags(pg) == [i \in 1..Len(pg.cards) |-> pg.cards[i].is_mounted]

\* C17: when the same live mount list is delivered to the page twice in
\* succession, the configuration set being the same, the second delivery
\* leaves every card's mounted flag as the first left it and rebuilds no card.
C17_ReconcileTwice ==
    [][(hist'.again /\ cfg' = cfg) =>
        /\ Flags(page') = Flags(page)
        /\ page' = page
        /\ ~HasEv(out', "card")]_vars

\* the same list was delivered twice and a card it names is mounted
C17_Witness ==
    /\ hist.again
    /\ \E i \in 1..Len(page.cards) : page.cards[i].is_mounted
    /\ \E i \in 1..Len(page.cards) : ~page.cards[i].is_mounted


\* ---------------------------------------------------------------- C18
HasLog(o, tag) == \E i \in 1..Len(o) : o[i] = Log("rclone", tag)
\* the exit handler has just stopped a Running daemon and swept the mount points
SweptWhileStopping ==
    /\ last.op = "cleanup"
    /\ HasLog(out, "stopping")
    /\ HasLog(out, "fallback-sweep")
\* C18: when the exit handler sweeps the configured mount points after asking
\* a Running daemon to stop, the unmount-all command has completed (its task
\* is no longer queued or in flight) and the daemon's process has been asked
\* to terminate.
C18_SweepAfterGracefulSteps ==
    SweptWhileStopping =>
        /\ \A i \in 1..Len(rclone.tasks) : rclone.tasks[i].kind # "stop_unmount"
        /\ \E i \in 1..Len(rclone.kill_timers) : rclone.kill_timers[i] = rclone.core_process


\* ---------------------------------------------------------------- C19
\* the worker tasks that call mount, unmount and the stop request's unmount-all
RacingTaskKinds == {"mount", "unmount", "stop_unmount"}
\* the faults of a call whose controller state changed under it: rc_url gone
\* between the precondition and the URL (AttributeError), and for a mount,
\* queued only while Running, a response of None (TypeError)
StateFaults(kind) ==
    IF kind = "mount" THEN {"AttributeError", "TypeError"} ELSE {"AttributeError"}
\* C19: whatever the core thread does between the steps of a worker's mount,
\* unmount or unmount-all call (a stop request, the exit handler), the call
\* does not end by raising for the state that changed under it.
C19_InFlightCallNeverFaults ==
    \A i \in 1..Len(rclone.tasks) :
        rclone.tasks[i].kind \in RacingTaskKinds =>
            rclone.tasks[i].exc \notin StateFaults(rclone.tasks[i].kind)


\* ---------------------------------------------------------------- C20
\* the steps that run on a worker of the pool
WorkerOps == {"worker_check", "worker_post"}
\* C20: a control-API request or a blocking subprocess run is made only in a
\* step of a background worker, never in a step of the core thread (a timer's
\* slot, the initial synchronization, the auto-mount pass, the exit handler).
C20_IoOnlyOnWorkers ==
    (HasEv(out, "http") \/ HasEv(out, "subprocess")) => last.op \in WorkerOps


\* ---------------------------------------------------------------- C21
\* a Stopped event directly followed by an empty mount-status event
StoppedThenNoMounts(o) ==
    \E i \in 1..(Len(o) - 1) :
        /\ o[i].k = "state" /\ o[i].v = <<"Stopped">>
        /\ o[i + 1] = Ev("mountsInfo", "rclone", 0, <<>>)
\* the step is the exit handler of the mount daemon's process p
DaemonExited(p) == last'.op = "exit" /\ last'.c = "rclone" /\ last'.p = p
StopCycleRequests(s) ==
    Cardinality({i \in 1..Len(s.tasks) :
                    s.tasks[i].kind = "stop_unmount" /\ s.tasks[i].target = s.core_process})
    + Cardinality({i \in 1..Len(s.kill_timers) : s.kill_timers[i] = s.core_process})
HasValue(args, flag) == \E i \in 1..(Len(args) - 1) : args[i] = flag
HasRcd(args) == \E i \in 1..Len(args) : args[i] = "rcd"
\* C23: start_core_service launches a process only when the startup
\* parameters contain "rcd" and both --rc-user and --rc-pass, each followed by
\* a value; when "rcd" is absent the call emits an error, launches nothing and
\* the daemon stays not Running.
C23_LaunchNeedsRcdAndCredentials ==
    last.op = "start" =>
        /\ HasEv(out, "launch") =>
              /\ HasRcd(cfg.rcloneStartupParams)
              /\ HasValue(cfg.rcloneStartupParams, "--rc-user")
              /\ HasValue(cfg.rcloneStartupParams, "--rc-pass")
        /\ ~HasRcd(cfg.rcloneStartupParams) =>
              /\ HasEv(out, "error") /\ ~HasEv(out, "launch")
              /\ ~rclone.is_core_running /\ Live(rclone) = {}

\* both credential flags are there with a value
HasCredentials(args) == HasValue(args, "--rc-user") /\ HasValue(args, "--rc-pass")
\* C23 as the code has it: start_core_service launches a process only when the
\* startup parameters contain "rcd"; a launch with a credential flag missing
\* or without a value logs a warning and leaves the controller with no
\* credentials; when "rcd" is absent the call emits an error, launches nothing
\* and the daemon stays not Running.
C23_LaunchNeedsRcd ==
    last.op = "start" =>
        /\ HasEv(out, "launch") => HasRcd(cfg.rcloneStartupParams)
        /\ (HasEv(out, "launch") /\ ~HasCredentials(cfg.rcloneStartupParams)) =>
              /\ HasLog(out, "no-rc-auth")
              /\ rclone.rc_user = None /\ rclone.rc_pass = None
        /\ ~HasRcd(cfg.rcloneStartupParams) =>
              /\ HasEv(out, "error") /\ ~HasEv(out, "launch")
              /\ ~rclone.is_core_running /\ Live(rclone) = {}
\* the second launch of a run whose parameters lack a credential
C23_Witness ==
    /\ last.op = "start" /\ HasEv(out, "launch")
    /\ HasRcd(cfg.rcloneStartupParams)
    /\ ~HasCredentials(cfg.rcloneStartupParams)
    /\ Launched(rclone) = 2


\* ---------------------------------------------------------------- C24
\* task i of the pool makes the request of its call `call` in this step
Posts(i, call) ==
    /\ rclone.tasks[i].pc = "posting"
    /\ Head(rclone.tasks[i].todo) = call
    /\ last'.op = "worker_post"
    /\ rclone'.tasks[i] # rclone.tasks[i]
    /\ HasEv(out', "http")
\* C24: a mount call sends /mount/mount only after it has seen "webdav" in a
\* remote listing or has created it with a successful /config/create; and a
\* listing that contains "webdav" is followed by no /config/create.
C24_WebdavEnsuredBeforeMount ==
    [][\A i \in 1..Len(rclone.tasks) :
          /\ Posts(i, "mount_send") => rclone.tasks[i].ensured
          /\ (Posts(i, "ensure_webdav_remote") /\ HasLog(out', "webdav-present"))
                => (rclone'.tasks[i].todo = <<>>
                       \/ Head(rclone'.tasks[i].todo) # "create_webdav_remote")]_vars


\* ---------------------------------------------------------------- C25
\* the entries of the store flagged autoMount that have a mount point
Flagged ==
    {i \in 1..Len(cfg.mountConfigs) :
        cfg.mountConfigs[i].auto_mount /\ cfg.mountConfigs[i].mount_point # <<>>}
\* the step sends the mount request of the auto-mount pass for entry i
AutoRequested(i) ==
    /\ last.op = "mount_send"
    /\ \E k \in 1..Len(out) :
          out[k] = Payload("/mount/mount", MountPayload(cfg.mountConfigs[i], cfg.platform))
\* C25: the auto-mount pass of a Running daemon leaves no flagged entry
\* without its mount request, whatever happened to the entries before it
\* (when the pass is over, no entry is left unvisited), and it sends a request
\* for no entry that is not flagged.
C25_EveryFlaggedEntryRequested ==
    /\ (rclone.is_core_running /\ rclone.core = <<>>) => rclone.auto_queue = <<>>
    /\ \A i \in 1..Len(cfg.mountConfigs) : AutoRequested(i) => i \in Flagged


\* ---------------------------------------------------------------- C26
\* process p of controller c has been asked to terminate: by this step, or
\* earlier with its kill timer still pending
TerminateRequested(c, p) ==
    \/ \E i \in 1..Len(out) : out[i].k = "terminate" /\ out[i].c = c /\ out[i].p = p
    \/ c = "rclone" /\ \E i \in 1..Len(rclone.kill_timers) : rclone.kill_timers[i] = p
\* C26: when the application has quit through the confirmed close, every
\* child process of the listing service and of the mount daemon that is still
\* live, ready or not, has been asked to terminate.
C26_CloseTerminatesEveryChild ==
    run = "closed" =>
        /\ \A p \in Live(alist) : TerminateRequested("alist", p)
        /\ \A p \in Live(rclone) : TerminateRequested("rclone", p)


\* ---------------------------------------------------------------- C27
\* a restart is pending for process p of the daemon
RestartPending(p) == rclone.procs[p].st = "alive" /\ rclone.procs[p].restarting
\* C27: a restart is pending for a daemon process only while the stop that
\* the restart began is in progress: when restart_core_service's stop was
\* rejected, no restart mark is left behind for a later stop to act on.
C27_PendingRestartHasBegunStopping ==
    \A p \in Procs : RestartPending(p) => rclone.is_stopping

\* ---------------------------------------------------------------- C28
\* C28: the session-start sweep kills no process that this session's
\* controllers launched, however its two kill commands interleave with the
\* starts of the listing service and of the daemon.
C28_SweepSparesSessionChildren ==
    ~HasEv(out, "sweep_kill")


\* ---------------------------------------------------------------- C29
\* C29: whenever the mount daemon's controller is not Running, every card of
\* the page is displayed as unmounted: no list of live mounts delivered while
\* the daemon is stopped marks a configuration as mounted.
C29_StoppedShowsNothingMounted ==
    ~rclone.is_core_running =>
        \A i \in 1..Len(page.cards) : ~page.cards[i].is_mounted

\* a delayed refresh was delivered after the daemon's exit handler had run
C29_Witness ==
    /\ last.op = "refresh_timer"
    /\ HasEv(out, "mountsInfo")
    /\ ~rclone.is_core_running
    /\ hist.lastState = "Stopped"
    /\ page.cards # <<>>


\* ---------------------------------------------------------------- C30
\* the entries of a delivered list that name the fs of a card
LiveEntries(live, fs) == {j \in 1..Len(live) : LiveMatch(live[j], fs)}
\* C30: a card is reported mounted only for a live mount at its own mount
\* point.  A live entry is a mount at one mount point, so two cards of the
\* same fs and different mount points are both reported mounted only when the
\* delivered list holds two mounts of that fs.
C30_MountedOnlyAtOwnMountPoint ==
    last.op = "on_mounts_info_updated" =>
        \A i, j \in 1..Len(page.cards) :
            /\ i # j
            /\ page.cards[i].config.fs = page.cards[j].config.fs
            /\ page.cards[i].config.mount_point # page.cards[j].config.mount_point
            /\ page.cards[i].is_mounted /\ page.cards[j].is_mounted
            => Cardinality(LiveEntries(out[1].v, page.cards[i].config.fs)) >= 2

====
